---- MODULE Spec2Model ----
(***************************************************************************)
(* Model of the gnostic compiler core: the Resource Reader with its two    *)
(* process-wide caches (crates/gnostic-compiler/src/reader.rs) and the     *)
(* Extension Pipeline (crates/gnostic-compiler/src/extensions.rs).         *)
(*                                                                         *)
(* A Rust String is a sequence of one-character strings, so that splitting *)
(* at '#', splitting at '/', Path::parent and Url::parse are computed on   *)
(* the characters.  A byte payload (Vec<u8>) is an opaque token: the code  *)
(* only hands it to the UTF-8 decoder and to the YAML parser.              *)
(***************************************************************************)
EXTENDS Integers, Sequences, FiniteSets, TLC

VARIABLES
    fileCache,          \* FILE_CACHE: locator -> bytes
    infoCache,          \* INFO_CACHE: locator or raw reference -> Yaml
    fileCacheEnabled,   \* FILE_CACHE_ENABLED
    infoCacheEnabled,   \* INFO_CACHE_ENABLED
    calls,              \* number of Reader calls made so far
    last,               \* what the most recent Reader call did and returned
    first,              \* locator -> result of the read_info_from_bytes call that established it
    invalidated,        \* a remove_*, clear_* or disable_* call has been made
    threads,            \* concurrent read_info_from_bytes callers (locals and position)
    parses,             \* locator -> number of YAML parses made by the concurrent callers
    ext,                \* the call_extension invocation in progress
    ctx,                \* the Context chain built so far, the root first and the leaf last
    err,                \* the CompilerError made from the leaf of ctx
    eg,                 \* an ErrorGroup: its errors and what was done to it
    dec,                \* a decode of a document: the node, the context and the result
    fl                  \* a Reader operation in flight on one thread, step by step

vars == <<fileCache, infoCache, fileCacheEnabled, infoCacheEnabled, calls, last,
          first, invalidated, threads, parses, ext, ctx, err, eg, dec, fl>>

readerVars == <<fileCache, infoCache, fileCacheEnabled, infoCacheEnabled, calls, last,
                first, invalidated>>

compilerVars == <<ctx, err, eg, dec, fl>>

-----------------------------------------------------------------------------
(* Bounds *)

MaxCalls == 3
NumThreads == 2
MaxHandlers == 3
MaxDepth == 2
MaxOps == 3

-----------------------------------------------------------------------------
(* Strings *)

EmptyStr == <<>>

\* position of the first occurrence of c in s, 0 when there is none
IndexOf(s, c) ==
    IF \E i \in 1..Len(s) : s[i] = c
    THEN CHOOSE i \in 1..Len(s) : s[i] = c /\ \A j \in 1..(i-1) : s[j] # c
    ELSE 0

\* str::splitn(2, '#')
SplitN2(s, c) ==
    LET p == IndexOf(s, c)
    IN  IF p = 0 THEN <<s>> ELSE <<SubSeq(s, 1, p-1), SubSeq(s, p+1, Len(s))>>

\* str::split('/'): the segments between the separators, empty ones included
RECURSIVE Split(_, _)
Split(s, c) ==
    LET p == IndexOf(s, c)
    IN  IF p = 0 THEN <<s>> ELSE <<SubSeq(s, 1, p-1)>> \o Split(SubSeq(s, p+1, Len(s)), c)

\* s without its trailing '/' characters
RECURSIVE TrimRight(_)
TrimRight(s) ==
    IF s # <<>> /\ s[Len(s)] = "/" THEN TrimRight(SubSeq(s, 1, Len(s)-1)) ELSE s

\* s without its last run of non-'/' characters
RECURSIVE DropLastComponent(_)
DropLastComponent(s) ==
    IF s # <<>> /\ s[Len(s)] # "/" THEN DropLastComponent(SubSeq(s, 1, Len(s)-1)) ELSE s

\* Path::new(p).parent().map(to_string).unwrap_or_default() on a Unix path
\* without "." components: None (the empty string here) for the empty path
\* and for the root; otherwise p without its last component and without the
\* separators before it, the root "/" kept.
PathParent(p) ==
    LET rooted == p # <<>> /\ p[1] = "/"
        root   == IF rooted THEN <<"/">> ELSE <<>>
        body   == IF rooted THEN SubSeq(p, 2, Len(p)) ELSE p
        body1  == TrimRight(body)
    IN  IF body1 = <<>> THEN <<>>
        ELSE root \o TrimRight(DropLastComponent(body1))

IsAlpha(c) == c \in {"a","b","d","f","g","h","k","p","s","t","w","x"}

SpecialSchemes == { <<"h","t","t","p">>, <<"h","t","t","p","s">>, <<"f","t","p">>,
                    <<"w","s">>, <<"w","s","s">> }

\* the scheme of s when s starts with one (ALPHA *(ALPHA) ":"), else the empty string
UrlScheme(s) ==
    LET p == IndexOf(s, ":")
    IN  IF p > 1 /\ \A j \in 1..(p-1) : IsAlpha(s[j]) THEN SubSeq(s, 1, p-1) ELSE <<>>

RECURSIVE TrimLeftSlashes(_)
TrimLeftSlashes(s) ==
    IF s # <<>> /\ s[1] = "/" THEN TrimLeftSlashes(Tail(s)) ELSE s

\* the host of a special-scheme locator: what follows "scheme:" and the slashes, up to the next '/'
UrlHost(s) ==
    LET rest == TrimLeftSlashes(SubSeq(s, Len(UrlScheme(s)) + 2, Len(s)))
    IN  Split(rest, "/")[1]

\* Url::parse(s).is_ok(): s is an absolute URL (it has a scheme; a special
\* scheme also needs a host)
UrlParseOk(s) ==
    /\ UrlScheme(s) # <<>>
    /\ UrlScheme(s) \in SpecialSchemes => UrlHost(s) # <<>>

-----------------------------------------------------------------------------
(* serde_yaml::Value *)

NoMap == [x \in {} |-> x]

YNull == [kind |-> "null", val |-> <<>>, map |-> NoMap]
YString(s) == [kind |-> "string", val |-> s, map |-> NoMap]
YNumber(s) == [kind |-> "number", val |-> s, map |-> NoMap]
YMapping(m) == [kind |-> "mapping", val |-> <<>>, map |-> m]

\* a one-entry and a two-entry mapping
Map1(k, v) == YMapping([x \in {k} |-> v])
Map2(k1, v1, k2, v2) == YMapping([x \in {k1, k2} |-> IF x = k1 THEN v1 ELSE v2])

-----------------------------------------------------------------------------
(* Results: Result<Yaml> and Result<Vec<u8>> with CompilerError *)

NoBytes == "<none>"
NoErr == [kind |-> "none", msg |-> <<>>]

Ok(node) == [ok |-> TRUE, node |-> node, bytes |-> NoBytes, err |-> NoErr]
OkBytes(b) == [ok |-> TRUE, node |-> YNull, bytes |-> b, err |-> NoErr]
Err(kind, msg) == [ok |-> FALSE, node |-> YNull, bytes |-> NoBytes,
                   err |-> [kind |-> kind, msg |-> msg]]

\* format!("could not resolve {}", reference)
CouldNotResolve(reference) ==
    <<"could not resolve ">> \o reference

-----------------------------------------------------------------------------
(* The resources outside the process: the filesystem and the network.      *)
(* They do not change while the model runs.  The names are kept short:     *)
(* "d/a" and "d/b" are two documents of one directory, "a" and "b" two     *)
(* documents without a directory, "k" and "w" the keys of a definition.    *)

DirA == <<"d","/","a">>
DirB == <<"d","/","b">>
LocA == <<"a">>
LocB == <<"b">>
RootA == <<"/","a">>
UrlB == <<"h","t","t","p",":","/","/","h","/","b">>
UrlX == <<"h","t","t","p",":","/","/","h","/","x">>
UrlS == <<"h","t","t","p","s",":","/","/","h","/","b">>
UrlF == <<"f","t","p",":","/","/","h","/","b">>
DirC == <<"d","/","c">>
DirE == <<"d","/","e">>
DirT == <<"d","/","t">>
DirG == <<"d","/","g">>

Kdefs == YString(<<"k">>)
KWidget == YString(<<"w">>)

\* byte payloads, named by the text they hold
BytesA == "k: {w: wa, k: ka}"
BytesB == "k: {w: wb}"
BytesC == "k: 1"
BytesBad == "k: ["
BytesBin == "\\xff"
BytesRefE == "k: {$ref: e#/k}"
BytesRefC == "k: {$ref: c#/k}"
BytesDocGood == "{swagger: '2.0', tags: [{name: t}]}"
BytesDocTagsX == "tags: x"
BytesDocInSeq == "- {tags: x}"
BytesDocTwo == "[x, y]"
BytesDocBad == "{tags: [x, {externalDocs: x}], externalDocs: x}"

\* std::str::from_utf8(bytes).is_ok()
Utf8Ok(bytes) == bytes # BytesBin

\* serde_yaml::from_str on the payloads above
FromStr(content) ==
    CASE content = BytesA -> Ok(Map1(Kdefs, Map2(KWidget, YString(<<"w","a">>),
                                                 Kdefs, YString(<<"k","a">>))))
      [] content = BytesB -> Ok(Map1(Kdefs, Map1(KWidget, YString(<<"w","b">>))))
      [] content = BytesC -> Ok(Map1(Kdefs, YNumber(<<"1">>)))
      [] content = BytesRefE -> Ok(Map1(Kdefs, Map1(YString(<<"$","r","e","f">>),
                                                    YString(<<"e","#","/","k">>))))
      [] content = BytesRefC -> Ok(Map1(Kdefs, Map1(YString(<<"$","r","e","f">>),
                                                    YString(<<"c","#","/","k">>))))
      [] content = BytesDocGood ->
            Ok(Map2(YString(<<"s","w","a","g","g","e","r">>), YString(<<"2",".","0">>),
                    YString(<<"t","a","g","s">>),
                    [kind |-> "sequence", map |-> NoMap,
                     val |-> <<Map1(YString(<<"n","a","m","e">>), YString(<<"t">>))>>]))
      [] content = BytesDocTagsX -> Ok(Map1(YString(<<"t","a","g","s">>), YString(<<"x">>)))
      [] content = BytesDocInSeq ->
            Ok([kind |-> "sequence", map |-> NoMap,
                val |-> <<Map1(YString(<<"t","a","g","s">>), YString(<<"x">>))>>])
      [] content = BytesDocTwo ->
            Ok([kind |-> "sequence", map |-> NoMap,
                val |-> <<YString(<<"x">>), YString(<<"y">>)>>])
      [] content = BytesDocBad ->
            Ok(Map2(YString(<<"t","a","g","s">>),
                    [kind |-> "sequence", map |-> NoMap,
                     val |-> <<YString(<<"x">>),
                               Map1(YString(<<"e","x","t","e","r","n","a","l","D","o","c","s">>), YString(<<"x">>))>>],
                    YString(<<"e","x","t","e","r","n","a","l","D","o","c","s">>), YString(<<"x">>)))
      [] OTHER -> Err("Yaml", <<"did not find expected node content">>)

\* std::fs::read(filename)
FsRead(filename) ==
    CASE filename = DirA -> OkBytes(BytesA)
      [] filename = LocA -> OkBytes(BytesA)
      [] filename = DirB -> OkBytes(BytesB)
      [] filename = LocB -> OkBytes(BytesC)
      [] filename = DirC -> OkBytes(BytesRefE)
      [] filename = DirE -> OkBytes(BytesRefC)
      [] filename = DirT -> OkBytes(BytesDocBad)
      [] filename = DirG -> OkBytes(BytesDocGood)
      [] OTHER -> Err("Io", <<"Failed to read ">> \o filename \o <<": ", "No such file or directory">>)

\* the answer of the HTTP server to a GET of url: a status and a body
HttpGet(url) ==
    CASE url = UrlB -> [status |-> "200", body |-> BytesB]
      [] OTHER -> [status |-> "404", body |-> NoBytes]

-----------------------------------------------------------------------------
(* The caches: HashMap<String, _> as a function on the set of its keys *)

EmptyCache == [k \in {} |-> k]
Insert(m, k, v) == [x \in DOMAIN m \cup {k} |-> IF x = k THEN v ELSE m[x]]
Remove(m, k) == [x \in DOMAIN m \ {k} |-> m[x]]

-----------------------------------------------------------------------------
(* reader.rs *)

\* fetch_url_async and fetch_http: the result and the requests put on the network
FetchUrlAsync(url_str) ==
    LET scheme == UrlScheme(url_str)
        host   == UrlHost(url_str)
        resp   == HttpGet(url_str)
    IN  IF scheme = <<>> \/ host = <<>>
        THEN [res |-> Err("Http", <<"No host in URL: ">> \o url_str), requests |-> <<>>]
        ELSE IF scheme = <<"h","t","t","p","s">>
        THEN [res |-> Err("Http", <<"HTTPS URLs are not supported. Please download the file locally first: ">> \o url_str),
              requests |-> <<>>]
        ELSE IF resp.status # "200"
        THEN [res |-> Err("Http", <<"Error downloading ">> \o url_str \o <<": ", resp.status>>),
              requests |-> <<url_str>>]
        ELSE [res |-> OkBytes(resp.body), requests |-> <<url_str>>]

\* fetch_file storing the failure of the fetch as an empty payload
FetchFileStore_StoresFailure(fc, cache_enabled, fileurl, fetched) ==
    [res |-> fetched.res,
     fc |-> IF cache_enabled THEN Insert(fc, fileurl, fetched.res.bytes) ELSE fc,
     requests |-> fetched.requests, fsreads |-> <<>>]

\* fetch_file, lines 117-134: the result of the fetch, stored when it succeeded
FetchFileStore(fc, cache_enabled, fileurl, fetched) ==
    IF ~fetched.res.ok
    THEN [res |-> fetched.res, fc |-> fc, requests |-> fetched.requests, fsreads |-> <<>>]
    ELSE [res |-> fetched.res,
          fc |-> IF cache_enabled THEN Insert(fc, fileurl, fetched.res.bytes) ELSE fc,
          requests |-> fetched.requests, fsreads |-> <<>>]

\* fetch_file returning the fetched bytes on a hit, with a request made
FetchFile_NoHit(fc, fcEnabled, fileurl) ==
    FetchFileStore(fc, fcEnabled, fileurl, FetchUrlAsync(fileurl))

\* fetch_file
FetchFile(fc, fcEnabled, fileurl) ==
    IF fcEnabled /\ fileurl \in DOMAIN fc
    THEN [res |-> OkBytes(fc[fileurl]), fc |-> fc, requests |-> <<>>, fsreads |-> <<>>]
    ELSE FetchFileStore(fc, fcEnabled, fileurl, FetchUrlAsync(fileurl))

\* read_bytes_for_file fetching every locator that parses as a URL
ReadBytesForFile_AnyUrl(fc, fcEnabled, filename) ==
    IF UrlParseOk(filename)
    THEN FetchFile(fc, fcEnabled, filename)
    ELSE [res |-> FsRead(filename), fc |-> fc, requests |-> <<>>, fsreads |-> <<filename>>]

\* read_bytes_for_file storing the bytes of local files too
ReadBytesForFile_StoresLocal(fc, fcEnabled, filename) ==
    IF UrlParseOk(filename) /\ UrlScheme(filename) \in {<<"h","t","t","p">>, <<"h","t","t","p","s">>}
    THEN FetchFile(fc, fcEnabled, filename)
    ELSE [res |-> FsRead(filename),
          fc |-> IF fcEnabled /\ FsRead(filename).ok
                 THEN Insert(fc, filename, FsRead(filename).bytes) ELSE fc,
          requests |-> <<>>, fsreads |-> <<filename>>]

\* read_bytes_for_file
ReadBytesForFile(fc, fcEnabled, filename) ==
    IF UrlParseOk(filename) /\ UrlScheme(filename) \in {<<"h","t","t","p">>, <<"h","t","t","p","s">>}
    THEN FetchFile(fc, fcEnabled, filename)
    ELSE [res |-> FsRead(filename), fc |-> fc, requests |-> <<>>, fsreads |-> <<filename>>]

\* read_info_from_bytes without the lookup of lines 212-218
ReadInfoFromBytes_NoLookup(ic, icEnabled, filename, bytes) ==
    LET yaml == FromStr(bytes)
    IN  IF ~Utf8Ok(bytes)
        THEN [res |-> Err("Yaml", <<"Invalid UTF-8">>), ic |-> ic, parsed |-> 0, hit |-> FALSE]
        ELSE IF ~yaml.ok
        THEN [res |-> yaml, ic |-> ic, parsed |-> 1, hit |-> FALSE]
        ELSE [res |-> yaml,
              ic |-> IF icEnabled /\ filename # <<>> THEN Insert(ic, filename, yaml.node) ELSE ic,
              parsed |-> 1, hit |-> FALSE]

\* read_info_from_bytes with the empty locator a key like any other
ReadInfoFromBytes_EmptyKeyed(ic, icEnabled, filename, bytes) ==
    LET cache_enabled == icEnabled
        yaml == FromStr(bytes)
    IN  IF cache_enabled /\ filename \in DOMAIN ic
        THEN [res |-> Ok(ic[filename]), ic |-> ic, parsed |-> 0, hit |-> TRUE]
        ELSE IF ~Utf8Ok(bytes)
        THEN [res |-> Err("Yaml", <<"Invalid UTF-8">>), ic |-> ic, parsed |-> 0, hit |-> FALSE]
        ELSE IF ~yaml.ok
        THEN [res |-> yaml, ic |-> ic, parsed |-> 1, hit |-> FALSE]
        ELSE [res |-> yaml,
              ic |-> IF cache_enabled THEN Insert(ic, filename, yaml.node) ELSE ic,
              parsed |-> 1, hit |-> FALSE]

\* read_info_from_bytes
ReadInfoFromBytes(ic, icEnabled, filename, bytes) ==
    LET cache_enabled == icEnabled
        yaml == FromStr(bytes)
    IN  IF cache_enabled /\ filename # <<>> /\ filename \in DOMAIN ic
        THEN [res |-> Ok(ic[filename]), ic |-> ic, parsed |-> 0, hit |-> TRUE]
        ELSE IF ~Utf8Ok(bytes)
        THEN [res |-> Err("Yaml", <<"Invalid UTF-8">>), ic |-> ic, parsed |-> 0, hit |-> FALSE]
        ELSE IF ~yaml.ok
        THEN [res |-> yaml, ic |-> ic, parsed |-> 1, hit |-> FALSE]
        ELSE [res |-> yaml,
              ic |-> IF cache_enabled /\ filename # <<>> THEN Insert(ic, filename, yaml.node) ELSE ic,
              parsed |-> 1, hit |-> FALSE]

\* read_info_for_file, line 241: the bytes b that were read are parsed
ReadInfoForFileBytes(ic, icEnabled, filename, b) ==
    LET i == ReadInfoFromBytes(ic, icEnabled, filename, b.res.bytes)
    IN  IF ~b.res.ok
        THEN [res |-> b.res, fc |-> b.fc, ic |-> ic, parsed |-> 0, hit |-> FALSE,
              reads |-> <<filename>>, requests |-> b.requests, fsreads |-> b.fsreads]
        ELSE [res |-> i.res, fc |-> b.fc, ic |-> i.ic, parsed |-> i.parsed, hit |-> i.hit,
              reads |-> <<filename>>, requests |-> b.requests, fsreads |-> b.fsreads]

\* read_info_for_file
ReadInfoForFile(fc, ic, fcEnabled, icEnabled, filename) ==
    ReadInfoForFileBytes(ic, icEnabled, filename, ReadBytesForFile(fc, fcEnabled, filename))

\* the resolution with the file part never joined to the base directory
ResolveFilename_Unjoined(basefile, reference) ==
    LET parts == SplitN2(reference, "#")
    IN  IF parts[1] # <<>> THEN parts[1] ELSE basefile

\* read_info_for_ref, lines 262-282: the locator the reference resolves to
ResolveFilename(basefile, reference) ==
    LET parts   == SplitN2(reference, "#")
        basedir == PathParent(basefile)
    IN  IF parts[1] # <<>>
        THEN IF UrlParseOk(parts[1])
             THEN parts[1]
             ELSE IF basedir = <<>> THEN parts[1] ELSE basedir \o <<"/">> \o parts[1]
        ELSE basefile

\* the loop with the first segment descended into like the others
RECURSIVE Navigate_FirstNotSkipped(_, _, _)
Navigate_FirstNotSkipped(info, path, i) ==
    IF i > Len(path)
    THEN [st |-> "ok", info |-> info]
    ELSE IF path[i] # <<>>
    THEN IF info.kind = "mapping"
         THEN IF YString(path[i]) \in DOMAIN info.map
              THEN Navigate_FirstNotSkipped(info.map[YString(path[i])], path, i + 1)
              ELSE [st |-> "missing", info |-> info]
         ELSE [st |-> "notmapping", info |-> info]
    ELSE Navigate_FirstNotSkipped(info, path, i + 1)

\* read_info_for_ref, lines 292-314: the loop over the path segments, from
\* segment i on (i counts from 1 here and from 0 in the source)
RECURSIVE Navigate(_, _, _)
Navigate(info, path, i) ==
    IF i > Len(path)
    THEN [st |-> "ok", info |-> info]
    ELSE IF i > 1 /\ path[i] # <<>>
    THEN IF info.kind = "mapping"
         THEN IF YString(path[i]) \in DOMAIN info.map
              THEN Navigate(info.map[YString(path[i])], path, i + 1)
              ELSE [st |-> "missing", info |-> info]
         ELSE [st |-> "notmapping", info |-> info]
    ELSE Navigate(info, path, i + 1)

\* read_info_for_ref, lines 299-301 and 307-312: what each failure of the
\* navigation stores in the info cache
CacheOnFailure(ic, cache_enabled, st, reference) ==
    IF st = "missing" /\ cache_enabled THEN Insert(ic, reference, YNull) ELSE ic

\* what read_info_for_ref has done when it returns before reading anything
NoRead == [res |-> Ok(YNull), parsed |-> 0, hit |-> FALSE,
           reads |-> <<>>, requests |-> <<>>, fsreads |-> <<>>,
           doc |-> Ok(YNull), nav |-> "none"]

\* the result of read_info_for_ref: the fields of r and the two caches
RefResult(r, fc, ic) ==
    [res |-> r.res, fc |-> fc, ic |-> ic, parsed |-> r.parsed, hit |-> r.hit,
     reads |-> r.reads, requests |-> r.requests, fsreads |-> r.fsreads,
     doc |-> r.doc, nav |-> r.nav]

\* read_info_for_ref, line 290: the navigation of the fragment, when there is one
NavigateFragment(info, parts) ==
    IF Len(parts) > 1 /\ parts[2] # <<>>
    THEN Navigate(info, Split(parts[2], "/"), 1)
    ELSE [st |-> "ok", info |-> info]

\* read_info_for_ref, lines 295-322: the end of the call, the navigation done
ReadInfoForRefNavigated(cache_enabled, reference, read, i, nav) ==
    IF nav.st # "ok"
    THEN RefResult([read EXCEPT !.res = Err("Simple", CouldNotResolve(reference)),
                                !.nav = nav.st],
                   read.fc, CacheOnFailure(i.ic, cache_enabled, nav.st, reference))
    ELSE RefResult([read EXCEPT !.res = Ok(nav.info), !.nav = "ok"],
                   read.fc,
                   IF cache_enabled THEN Insert(i.ic, reference, nav.info) ELSE i.ic)

\* read_info_for_ref, lines 286-290: the document i that was parsed is navigated
ReadInfoForRefParsed(ic, cache_enabled, reference, filename, b, i) ==
    IF ~i.res.ok
    THEN RefResult([NoRead EXCEPT !.res = i.res, !.parsed = i.parsed, !.reads = <<filename>>,
                                  !.requests = b.requests, !.fsreads = b.fsreads,
                                  !.doc = i.res],
                   b.fc, ic)
    ELSE ReadInfoForRefNavigated(cache_enabled, reference,
                                 [NoRead EXCEPT !.parsed = i.parsed, !.reads = <<filename>>,
                                                !.requests = b.requests,
                                                !.fsreads = b.fsreads, !.doc = i.res]
                                    @@ [fc |-> b.fc],
                                 i, NavigateFragment(i.res.node, SplitN2(reference, "#")))

\* read_info_for_ref, lines 285-286: the bytes b that were read are parsed
ReadInfoForRefBytes(ic, cache_enabled, reference, filename, b) ==
    IF ~b.res.ok
    THEN RefResult([NoRead EXCEPT !.res = b.res, !.reads = <<filename>>,
                                  !.requests = b.requests, !.fsreads = b.fsreads],
                   b.fc, ic)
    ELSE ReadInfoForRefParsed(ic, cache_enabled, reference, filename, b,
                              ReadInfoFromBytes(ic, cache_enabled, filename, b.res.bytes))

\* read_info_for_ref, line 285: the resolved locator filename is read
ReadInfoForRefResolved(fc, ic, fcEnabled, cache_enabled, reference, filename) ==
    ReadInfoForRefBytes(ic, cache_enabled, reference, filename,
                        ReadBytesForFile(fc, fcEnabled, filename))

\* read_info_for_ref
ReadInfoForRef(fc, ic, fcEnabled, icEnabled, basefile, reference) ==
    IF icEnabled /\ reference \in DOMAIN ic
    THEN RefResult([NoRead EXCEPT !.res = Ok(ic[reference]), !.hit = TRUE], fc, ic)
    ELSE ReadInfoForRefResolved(fc, ic, fcEnabled, icEnabled, reference,
                                ResolveFilename(basefile, reference))

-----------------------------------------------------------------------------
(* The inputs the calls are made with *)

RefBWidget == <<"b","#","/","k","/","w">>
RefWidget == <<"#","/","k","/","w">>
RefGadget == <<"#","/","k","/","g">>
RefB == <<"b">>
RefBHash == <<"b","#">>
RefUrl == <<"h","t","t","p",":","/","/","h","/","b","#","/","k","/","w">>
RefSkip == <<"#","k","/","/","k">>
RefEk == <<"e","#","/","k">>

Bases == {DirA, LocB, RootA}
References == {RefBWidget, RefWidget, RefGadget, RefB, RefBHash, RefUrl, RefSkip, EmptyStr}
Filenames == {DirA, UrlB, UrlX, UrlS, UrlF}
FileUrls == {UrlB, UrlX, UrlS}
BytesLocators == {EmptyStr, LocB}
Payloads == {BytesA, BytesB, BytesBad, BytesBin}
CacheKeys == {LocB, UrlB, RefGadget}

-----------------------------------------------------------------------------
(* context.rs: a Context and the chain of its parents.  A chain is the     *)
(* sequence of the Contexts from the root to the leaf: the parent of an    *)
(* element is the element before it, and the first element has none.       *)

\* Option<usize>
None == [some |-> FALSE, val |-> 0]
Some(v) == [some |-> TRUE, val |-> v]

\* Option<Arc<Vec<ExtensionHandler>>>, a handler being its name
NoHandlers == [some |-> FALSE, val |-> <<>>]
SomeHandlers(h) == [some |-> TRUE, val |-> h]

\* the decimal digits of n, as format!("{}", n) writes a usize
Digit(d) == <<"0","1","2","3","4","5","6","7","8","9">>[d + 1]

RECURSIVE ToDecimal(_)
ToDecimal(n) == IF n < 10 THEN <<Digit(n)>> ELSE ToDecimal(n \div 10) \o <<Digit(n % 10)>>

\* the struct Context, without its parent
ContextOf(name, line, column, extension_handlers) ==
    [name |-> name, line |-> line, column |-> column,
     extension_handlers |-> extension_handlers]

\* Context::new_with_extensions; parent is a chain, empty for None
NewWithExtensions(name, line, column, parent, extension_handlers) ==
    Append(parent, ContextOf(name, line, column, extension_handlers))

\* Context::new leaving the handlers of the parent behind
New_NoInherit(name, line, column, parent) ==
    Append(parent, ContextOf(name, line, column, NoHandlers))

\* Context::new: the handlers are those of the parent
New(name, line, column, parent) ==
    Append(parent, ContextOf(name, line, column,
                             IF parent = <<>> THEN NoHandlers
                             ELSE parent[Len(parent)].extension_handlers))

\* get_extension_handlers (extensions.rs)
GetExtensionHandlers(context) == context[Len(context)].extension_handlers

\* Context::root
Root(name) == <<ContextOf(name, None, None, NoHandlers)>>

\* Context::child
Child(self, name) == New(name, None, None, self)

\* Context::child_with_position
ChildWithPosition(self, name, line, column) == New(name, Some(line), Some(column), self)

\* description() joining the names from the leaf to the root
RECURSIVE Description_LeafFirst(_)
Description_LeafFirst(self) ==
    IF Len(self) > 1
    THEN self[Len(self)].name \o <<".">> \o Description_LeafFirst(SubSeq(self, 1, Len(self) - 1))
    ELSE self[Len(self)].name

\* Context::description
RECURSIVE Description(_)
Description(self) ==
    IF Len(self) > 1
    THEN Description(SubSeq(self, 1, Len(self) - 1)) \o <<".">> \o self[Len(self)].name
    ELSE self[Len(self)].name

\* location_description() with the position written whenever the line is present
LocationDescription_LineOnly(self) ==
    LET leaf == self[Len(self)]
    IN  IF leaf.line.some
        THEN <<"[">> \o ToDecimal(leaf.line.val) \o <<",">> \o ToDecimal(leaf.column.val)
             \o <<"]", " ">> \o Description(self)
        ELSE Description(self)

\* Context::location_description
LocationDescription(self) ==
    LET leaf == self[Len(self)]
    IN  IF leaf.line.some /\ leaf.column.some
        THEN <<"[">> \o ToDecimal(leaf.line.val) \o <<",">> \o ToDecimal(leaf.column.val)
             \o <<"]", " ">> \o Description(self)
        ELSE Description(self)

-----------------------------------------------------------------------------
(* error.rs: CompilerError *)

NoError == [variant |-> "none", line |-> 0, column |-> 0, path |-> <<>>, message |-> <<>>]

Located(line, column, path, message) ==
    [variant |-> "Located", line |-> line, column |-> column, path |-> path,
     message |-> message]
Unlocated(path, message) ==
    [variant |-> "Unlocated", line |-> 0, column |-> 0, path |-> path, message |-> message]
Simple(message) ==
    [variant |-> "Simple", line |-> 0, column |-> 0, path |-> <<>>, message |-> message]

\* CompilerError::new with the location taken from the line alone
CompilerErrorNew_LineOnly(context, message) ==
    LET leaf == context[Len(context)]
    IN  IF leaf.line.some
        THEN Located(leaf.line.val, leaf.column.val, Description(context), message)
        ELSE Unlocated(Description(context), message)

\* CompilerError::new
CompilerErrorNew(context, message) ==
    LET leaf == context[Len(context)]
    IN  IF leaf.line.some /\ leaf.column.some
        THEN Located(leaf.line.val, leaf.column.val, Description(context), message)
        ELSE Unlocated(Description(context), message)

\* CompilerError::new_opt; context is a chain, empty for None
CompilerErrorNewOpt(context, message) ==
    IF context # <<>> THEN CompilerErrorNew(context, message) ELSE Simple(message)

\* the Display of a CompilerError (the #[error] attributes)
Display(e) ==
    CASE e.variant = "Located" ->
            <<"[">> \o ToDecimal(e.line) \o <<",">> \o ToDecimal(e.column) \o <<"]", " ">>
            \o e.path \o <<" ">> \o e.message
      [] e.variant = "Unlocated" -> e.path \o <<" ">> \o e.message
      [] e.variant = "Io" -> <<"IO error: ">> \o e.message
      [] e.variant = "Yaml" -> <<"YAML error: ">> \o e.message
      [] e.variant = "Http" -> <<"HTTP error: ">> \o e.message
      [] OTHER -> e.message

-----------------------------------------------------------------------------
(* error.rs: ErrorGroup, a group being the sequence of its errors *)

\* Option<ErrorGroup>
NoneGroup == [some |-> FALSE, errors |-> <<>>]
SomeGroup(errors) == [some |-> TRUE, errors |-> errors]

\* Result<(), ErrorGroup>; "none" before into_result is called
NoResult == [ok |-> FALSE, set |-> FALSE, errors |-> <<>>]
OkUnit == [ok |-> TRUE, set |-> TRUE, errors |-> <<>>]
ErrGroup(errors) == [ok |-> FALSE, set |-> TRUE, errors |-> errors]

\* ErrorGroup::new
GroupNew(errors) == errors

\* from_errors() wrapping every list, the empty one too
FromErrors_AlwaysSome(errors) == SomeGroup(errors)

\* ErrorGroup::from_errors
FromErrors(errors) ==
    IF errors = <<>> THEN NoneGroup ELSE SomeGroup(errors)

\* ErrorGroup::is_empty
IsEmpty(self) == self = <<>>

\* ErrorGroup::len
LenOf(self) == Len(self)

\* push() leaving out an error the group already holds
Push_Dedup(self, error) ==
    IF \E i \in 1..Len(self) : self[i] = error THEN self ELSE Append(self, error)

\* ErrorGroup::push
Push(self, error) == Append(self, error)

\* ErrorGroup::extend
Extend(self, other) == self \o other

\* into_result() succeeding for a group of one error as well
IntoResult_OneIsOk(self) ==
    IF Len(self) <= 1 THEN OkUnit ELSE ErrGroup(self)

\* ErrorGroup::into_result
IntoResult(self) ==
    IF self = <<>> THEN OkUnit ELSE ErrGroup(self)

\* ErrorGroup::from(error)
GroupFrom(error) == <<error>>

\* no group made yet
NoGroup == [pc |-> "none", ctor |-> "none", input |-> <<>>, made |-> NoneGroup, errors |-> <<>>,
            log |-> <<>>, result |-> NoResult]

-----------------------------------------------------------------------------
(* helpers.rs and gnostic-openapiv2/src/parser.rs.  The documents decoded  *)
(* here hold the keys swagger, host, tags and externalDocs only; for a key *)
(* that is absent parse_document does nothing.                             *)

\* Yaml::Array
YSequence(items) == [kind |-> "sequence", val |-> items, map |-> NoMap]

\* Option<String>
NoString == [some |-> FALSE, val |-> <<>>]
SomeString(s) == [some |-> TRUE, val |-> s]

KeySwagger == <<"s","w","a","g","g","e","r">>
KeyHost == <<"h","o","s","t">>
KeyTags == <<"t","a","g","s">>
KeyExternalDocs == <<"e","x","t","e","r","n","a","l","D","o","c","s">>
KeyName == <<"n","a","m","e">>
KeyDescription == <<"d","e","s","c","r","i","p","t","i","o","n">>
KeyUrl == <<"u","r","l">>

\* is_mapping, is_sequence
IsMapping(node) == node.kind = "mapping"
IsSequence(node) == node.kind = "sequence"

\* map_value_for_key(node, key).is_some() and the value it holds
MapHasKey(node, key) == IsMapping(node) /\ YString(key) \in DOMAIN node.map
MapValueForKey(node, key) == node.map[YString(key)]

\* string_for_scalar_node
StringForScalarNode(node) ==
    CASE node.kind = "string" -> SomeString(node.val)
      [] node.kind = "number" -> SomeString(node.val)
      [] node.kind = "null" -> SomeString(<<>>)
      [] OTHER -> NoString

\* `if let Some(v) = map_value_for_key(node, key) { if let Some(s) =
\* string_for_scalar_node(v) { field = s } }`: the field afterwards
ScalarField(node, key, default) ==
    IF MapHasKey(node, key) /\ StringForScalarNode(MapValueForKey(node, key)).some
    THEN StringForScalarNode(MapValueForKey(node, key)).val
    ELSE default

\* format!("{:?}", node), for the nodes that are not mappings
DebugOf(node) ==
    CASE node.kind = "string" -> <<"String(\"">> \o node.val \o <<"\")">>
      [] node.kind = "null" -> <<"Null">>
      [] OTHER -> <<node.kind>>

\* Result<T, ErrorGroup>: the value of an Err is absent
Absent == [present |-> FALSE]
ParseOk(value) == [ok |-> TRUE, value |-> value, errors |-> <<>>]
ParseErr(errors) == [ok |-> FALSE, value |-> Absent, errors |-> errors]

\* `if errors.is_empty() { Ok(value) } else { Err(ErrorGroup::new(errors)) }`
OkUnlessErrors(value, errors) ==
    IF errors = <<>> THEN ParseOk(value) ELSE ParseErr(GroupNew(errors))

\* ExternalDocs::default(), Tag::default(), Document::default()
DefaultExternalDocs == [present |-> TRUE, description |-> <<>>, url |-> <<>>]
DefaultTag == [present |-> TRUE, name |-> <<>>, description |-> <<>>, external_docs |-> Absent]
DefaultDocument == [present |-> TRUE, swagger |-> <<>>, host |-> <<>>, tags |-> <<>>,
                    external_docs |-> Absent]

\* Parser::parse_external_docs
ParseExternalDocs(node, context) ==
    IF ~IsMapping(node)
    THEN ParseErr(GroupNew(<<CompilerErrorNew(context, <<"externalDocs must be an object">>)>>))
    ELSE ParseOk([DefaultExternalDocs EXCEPT
                    !.description = ScalarField(node, KeyDescription, <<>>),
                    !.url = ScalarField(node, KeyUrl, <<>>)])

\* parse_tag, lines 431-443: the externalDocs of the tag, parsed as docs
ParseTagDocs(tag, docs) ==
    IF docs.ok
    THEN ParseOk([tag EXCEPT !.external_docs = docs.value])
    ELSE ParseErr(GroupNew(docs.errors))

\* Parser::parse_tag
ParseTag(node, context) ==
    IF ~IsMapping(node)
    THEN ParseErr(GroupNew(<<CompilerErrorNew(context, <<"tag must be an object">>)>>))
    ELSE IF MapHasKey(node, KeyExternalDocs)
    THEN ParseTagDocs([DefaultTag EXCEPT !.name = ScalarField(node, KeyName, <<>>),
                                         !.description = ScalarField(node, KeyDescription, <<>>)],
                      ParseExternalDocs(MapValueForKey(node, KeyExternalDocs),
                                        Child(context, KeyExternalDocs)))
    ELSE ParseOk([DefaultTag EXCEPT !.name = ScalarField(node, KeyName, <<>>),
                                    !.description = ScalarField(node, KeyDescription, <<>>)])

\* parse_tags, lines 394-400: the loop over the items from item i on (i counts
\* from 1 here and from 0 in the source); acc holds the tags and errors so far
RECURSIVE ParseTagItems(_, _, _, _)
ParseTagItemsNext(items, context, i, acc, tag) ==
    ParseTagItems(items, context, i + 1,
                  IF tag.ok
                  THEN [acc EXCEPT !.tags = Append(@, tag.value)]
                  ELSE [acc EXCEPT !.errors = Extend(@, tag.errors)])

ParseTagItems(items, context, i, acc) ==
    IF i > Len(items) THEN acc
    ELSE ParseTagItemsNext(items, context, i, acc,
                           ParseTag(items[i], Child(context, ToDecimal(i - 1))))

\* parse_tags, lines 402-406
ParseTagsEnd(acc) == OkUnlessErrors(acc.tags, acc.errors)

\* Parser::parse_tags
ParseTags(node, context) ==
    IF ~IsSequence(node)
    THEN ParseErr(GroupNew(<<CompilerErrorNew(context, <<"tags must be an array">>)>>))
    ELSE ParseTagsEnd(ParseTagItems(node.val, context, 1, [tags |-> <<>>, errors |-> <<>>]))

\* parse_document, lines 90-96: the tags key; st holds the document and errors so far
DocumentTags(st, tags) ==
    IF tags.ok
    THEN [st EXCEPT !.doc.tags = tags.value]
    ELSE [st EXCEPT !.errors = Extend(@, tags.errors)]

\* parse_document, lines 99-105: the externalDocs key
DocumentExternalDocs(st, docs) ==
    IF docs.ok
    THEN [st EXCEPT !.doc.external_docs = docs.value]
    ELSE [st EXCEPT !.errors = Extend(@, docs.errors)]

\* parse_document, lines 107-111
ParseDocumentEnd(st) == OkUnlessErrors(st.doc, st.errors)

\* parse_document giving up on externalDocs once a sibling has failed
ParseDocumentFromExternalDocs_FailFast(node, context, st) ==
    ParseDocumentEnd(
        IF MapHasKey(node, KeyExternalDocs) /\ st.errors = <<>>
        THEN DocumentExternalDocs(st, ParseExternalDocs(MapValueForKey(node, KeyExternalDocs),
                                                        Child(context, KeyExternalDocs)))
        ELSE st)

\* parse_document, lines 98-111
ParseDocumentFromExternalDocs(node, context, st) ==
    ParseDocumentEnd(
        IF MapHasKey(node, KeyExternalDocs)
        THEN DocumentExternalDocs(st, ParseExternalDocs(MapValueForKey(node, KeyExternalDocs),
                                                        Child(context, KeyExternalDocs)))
        ELSE st)

\* parse_document, lines 89-111
ParseDocumentFromTags(node, context, st) ==
    ParseDocumentFromExternalDocs(node, context,
        IF MapHasKey(node, KeyTags)
        THEN DocumentTags(st, ParseTags(MapValueForKey(node, KeyTags), Child(context, KeyTags)))
        ELSE st)

\* parse_document without the precondition of lines 21-24
ParseDocument_NoPrecondition(node, context) ==
    ParseDocumentFromTags(node, context,
        [doc |-> [DefaultDocument EXCEPT !.swagger = ScalarField(node, KeySwagger, <<>>),
                                         !.host = ScalarField(node, KeyHost, <<>>)],
         errors |-> <<>>])

\* Parser::parse_document
ParseDocument(node, context) ==
    IF ~IsMapping(node)
    THEN ParseErr(GroupNew(<<CompilerErrorNew(context,
                                              <<"expected mapping, got ">> \o DebugOf(node))>>))
    ELSE ParseDocumentFromTags(node, context,
            [doc |-> [DefaultDocument EXCEPT !.swagger = ScalarField(node, KeySwagger, <<>>),
                                             !.host = ScalarField(node, KeyHost, <<>>)],
             errors |-> <<>>])

\* no decode made yet; input is what the reader gave to the decode, path and
\* bytes what document.rs was called with
NoDecode == [pc |-> "none", node |-> YNull, context |-> <<>>, result |-> ParseErr(<<>>),
             input |-> Ok(YNull), path |-> <<>>, bytes |-> NoBytes]

-----------------------------------------------------------------------------
(* document.rs of gnostic-openapiv2 *)

\* e.into() of the CompilerError of a reader operation
IntoCompilerError(e) ==
    [variant |-> e.kind, line |-> 0, column |-> 0, path |-> <<>>, message |-> e.msg]

\* the node the decode starts from: the item of a one-item sequence, or the
\* value itself
DocumentNode(yaml) ==
    IF IsSequence(yaml) /\ Len(yaml.val) = 1 THEN yaml.val[1] ELSE yaml

\* parse_document(bytes) forgetting the error of read_info_from_bytes
DocumentParseDocument_DropsError(ic, icEnabled, bytes) ==
    LET yaml == ReadInfoFromBytes(ic, icEnabled, <<>>, bytes)
    IN  IF ~yaml.res.ok
        THEN [input |-> yaml.res, ic |-> yaml.ic, node |-> YNull,
              result |-> ParseErr(GroupNew(<<>>))]
        ELSE [input |-> yaml.res, ic |-> yaml.ic, node |-> DocumentNode(yaml.res.node),
              result |-> ParseDocument(DocumentNode(yaml.res.node), Root(<<"$">>))]

\* parse_document(bytes)
DocumentParseDocument(ic, icEnabled, bytes) ==
    LET yaml == ReadInfoFromBytes(ic, icEnabled, <<>>, bytes)
    IN  IF ~yaml.res.ok
        THEN [input |-> yaml.res, ic |-> yaml.ic, node |-> YNull,
              result |-> ParseErr(GroupNew(<<IntoCompilerError(yaml.res.err)>>))]
        ELSE [input |-> yaml.res, ic |-> yaml.ic, node |-> DocumentNode(yaml.res.node),
              result |-> ParseDocument(DocumentNode(yaml.res.node), Root(<<"$">>))]

\* parse_document_from_file(path)
ParseDocumentFromFile(fc, fcEnabled, ic, icEnabled, path) ==
    LET bytes == ReadBytesForFile(fc, fcEnabled, path)
    IN  IF ~bytes.res.ok
        THEN [input |-> bytes.res, fc |-> bytes.fc, ic |-> ic, node |-> YNull,
              result |-> ParseErr(GroupNew(<<IntoCompilerError(bytes.res.err)>>))]
        ELSE [input |-> DocumentParseDocument(ic, icEnabled, bytes.res.bytes).input,
              fc |-> bytes.fc,
              ic |-> DocumentParseDocument(ic, icEnabled, bytes.res.bytes).ic,
              node |-> DocumentParseDocument(ic, icEnabled, bytes.res.bytes).node,
              result |-> DocumentParseDocument(ic, icEnabled, bytes.res.bytes).result]

-----------------------------------------------------------------------------
(* State *)

NoCall == [op |-> "none", filename |-> <<>>, reference |-> <<>>, bytes |-> NoBytes,
           enabled |-> TRUE, res |-> Ok(YNull), parsed |-> 0, hit |-> FALSE,
           reads |-> <<>>, requests |-> <<>>, fsreads |-> <<>>,
           doc |-> Ok(YNull), nav |-> "none"]

\* no operation in flight
NoFlight == [pc |-> "idle", op |-> "none", cache_enabled |-> FALSE, inner_enabled |-> FALSE,
             touched |-> FALSE, refs |-> 0, reads |-> 0, frombytes |-> 0, basefile |-> <<>>, reference |-> <<>>, filename |-> <<>>,
             bytes |-> NoBytes, info |-> YNull, res |-> Ok(YNull)]

IdleThread == [pc |-> "idle", filename |-> <<>>, bytes |-> NoBytes,
               cache_enabled |-> FALSE, res |-> NoBytes]

\* Result<(bool, Option<Vec<u8>>)> of call_extension
ExtOk(handled, payload) == [ok |-> TRUE, handled |-> handled, payload |-> payload, err |-> NoErr]
ExtErr(kind, msg) == [ok |-> FALSE, handled |-> FALSE, payload |-> NoBytes,
                      err |-> [kind |-> kind, msg |-> msg]]

IdleExt == [pc |-> "idle", configured |-> FALSE, handlers |-> <<>>, node |-> YNull,
            extension_name |-> <<>>, next |-> 1, invoked |-> <<>>, spawned |-> <<>>,
            outcomes |-> <<>>, res |-> ExtOk(FALSE, NoBytes)]

Init ==
    /\ fileCache = EmptyCache
    /\ infoCache = EmptyCache
    /\ fileCacheEnabled = TRUE
    /\ infoCacheEnabled = TRUE
    /\ calls = 0
    /\ last = NoCall
    /\ first = EmptyCache
    /\ invalidated = FALSE
    /\ threads = [t \in 1..NumThreads |-> IdleThread]
    /\ parses = EmptyCache
    /\ ext = IdleExt
    /\ ctx = <<>>
    /\ err = NoError
    /\ eg = NoGroup
    /\ dec = NoDecode
    /\ fl = NoFlight

-----------------------------------------------------------------------------
(* The Reader's operations, each called to completion *)

\* read_bytes_for_file(filename) returns r
ReturnReadBytesForFile(filename, r) ==
    /\ fileCache' = r.fc
    /\ last' = [NoCall EXCEPT !.op = "read_bytes_for_file", !.filename = filename,
                              !.enabled = infoCacheEnabled, !.res = r.res,
                              !.reads = <<filename>>, !.requests = r.requests,
                              !.fsreads = r.fsreads]
    /\ UNCHANGED <<infoCache, fileCacheEnabled, infoCacheEnabled, first, invalidated>>

\* read_bytes_for_file(filename)
CallReadBytesForFile(filename) ==
    /\ calls < MaxCalls
    /\ calls' = calls + 1
    /\ ReturnReadBytesForFile(filename, ReadBytesForFile(fileCache, fileCacheEnabled, filename))

\* fetch_file(fileurl) returns r
ReturnFetchFile(fileurl, r) ==
    /\ fileCache' = r.fc
    /\ last' = [NoCall EXCEPT !.op = "fetch_file", !.filename = fileurl,
                              !.enabled = infoCacheEnabled, !.res = r.res,
                              !.requests = r.requests, !.fsreads = r.fsreads]
    /\ UNCHANGED <<infoCache, fileCacheEnabled, infoCacheEnabled, first, invalidated>>

\* fetch_file(fileurl)
CallFetchFile(fileurl) ==
    /\ calls < MaxCalls
    /\ calls' = calls + 1
    /\ ReturnFetchFile(fileurl, FetchFile(fileCache, fileCacheEnabled, fileurl))

\* read_info_from_bytes(filename, bytes) returns r
ReturnReadInfoFromBytes(filename, bytes, r) ==
    /\ infoCache' = r.ic
    /\ last' = [NoCall EXCEPT !.op = "read_info_from_bytes", !.filename = filename,
                              !.bytes = bytes, !.enabled = infoCacheEnabled,
                              !.res = r.res, !.parsed = r.parsed, !.hit = r.hit]
    /\ first' = IF infoCacheEnabled /\ filename # <<>> /\ r.res.ok /\ filename \notin DOMAIN first
                THEN Insert(first, filename, r.res.node)
                ELSE first
    /\ UNCHANGED <<fileCache, fileCacheEnabled, infoCacheEnabled, invalidated>>

\* read_info_from_bytes(filename, bytes)
CallReadInfoFromBytes(filename, bytes) ==
    /\ calls < MaxCalls
    /\ calls' = calls + 1
    /\ ReturnReadInfoFromBytes(filename, bytes,
                               ReadInfoFromBytes(infoCache, infoCacheEnabled, filename, bytes))

\* read_info_for_file(filename) returns r
ReturnReadInfoForFile(filename, r) ==
    /\ fileCache' = r.fc
    /\ infoCache' = r.ic
    /\ last' = [NoCall EXCEPT !.op = "read_info_for_file", !.filename = filename,
                              !.enabled = infoCacheEnabled, !.res = r.res,
                              !.parsed = r.parsed, !.hit = r.hit, !.reads = r.reads,
                              !.requests = r.requests, !.fsreads = r.fsreads]
    /\ UNCHANGED <<fileCacheEnabled, infoCacheEnabled, first, invalidated>>

\* read_info_for_file(filename)
CallReadInfoForFile(filename) ==
    /\ calls < MaxCalls
    /\ calls' = calls + 1
    /\ ReturnReadInfoForFile(filename,
                             ReadInfoForFile(fileCache, infoCache, fileCacheEnabled,
                                             infoCacheEnabled, filename))

\* read_info_for_ref(basefile, reference) returns r
ReturnReadInfoForRef(basefile, reference, r) ==
    /\ fileCache' = r.fc
    /\ infoCache' = r.ic
    /\ last' = [NoCall EXCEPT !.op = "read_info_for_ref", !.filename = basefile,
                              !.reference = reference, !.enabled = infoCacheEnabled,
                              !.res = r.res, !.parsed = r.parsed, !.hit = r.hit,
                              !.reads = r.reads, !.requests = r.requests,
                              !.fsreads = r.fsreads, !.doc = r.doc, !.nav = r.nav]
    /\ UNCHANGED <<fileCacheEnabled, infoCacheEnabled, first, invalidated>>

\* read_info_for_ref(basefile, reference)
CallReadInfoForRef(basefile, reference) ==
    /\ calls < MaxCalls
    /\ calls' = calls + 1
    /\ ReturnReadInfoForRef(basefile, reference,
                            ReadInfoForRef(fileCache, infoCache, fileCacheEnabled,
                                           infoCacheEnabled, basefile, reference))

\* enable_file_cache, disable_file_cache
SetFileCacheEnabled(b) ==
    /\ calls < MaxCalls
    /\ calls' = calls + 1
    /\ fileCacheEnabled' = b
    /\ last' = [NoCall EXCEPT !.op = IF b THEN "enable_file_cache" ELSE "disable_file_cache",
                              !.enabled = infoCacheEnabled]
    /\ invalidated' = (invalidated \/ ~b)
    /\ UNCHANGED <<fileCache, infoCache, infoCacheEnabled, first>>

\* enable_info_cache, disable_info_cache
SetInfoCacheEnabled(b) ==
    /\ calls < MaxCalls
    /\ calls' = calls + 1
    /\ infoCacheEnabled' = b
    /\ last' = [NoCall EXCEPT !.op = IF b THEN "enable_info_cache" ELSE "disable_info_cache",
                              !.enabled = infoCacheEnabled]
    /\ invalidated' = (invalidated \/ ~b)
    /\ UNCHANGED <<fileCache, infoCache, fileCacheEnabled, first>>

\* remove_from_file_cache removing whatever the flag is
RemoveFromFileCache_Always(fileurl) ==
    /\ calls < MaxCalls
    /\ calls' = calls + 1
    /\ fileCache' = Remove(fileCache, fileurl)
    /\ last' = [NoCall EXCEPT !.op = "remove_from_file_cache", !.filename = fileurl,
                              !.enabled = infoCacheEnabled]
    /\ invalidated' = TRUE
    /\ UNCHANGED <<infoCache, fileCacheEnabled, infoCacheEnabled, first>>

\* remove_from_file_cache(fileurl)
RemoveFromFileCache(fileurl) ==
    /\ calls < MaxCalls
    /\ calls' = calls + 1
    /\ fileCache' = IF fileCacheEnabled THEN Remove(fileCache, fileurl) ELSE fileCache
    /\ last' = [NoCall EXCEPT !.op = "remove_from_file_cache", !.filename = fileurl,
                              !.enabled = infoCacheEnabled]
    /\ invalidated' = TRUE
    /\ UNCHANGED <<infoCache, fileCacheEnabled, infoCacheEnabled, first>>

\* remove_from_info_cache(filename)
RemoveFromInfoCache(filename) ==
    /\ calls < MaxCalls
    /\ calls' = calls + 1
    /\ infoCache' = IF infoCacheEnabled THEN Remove(infoCache, filename) ELSE infoCache
    /\ first' = IF infoCacheEnabled THEN Remove(first, filename) ELSE first
    /\ last' = [NoCall EXCEPT !.op = "remove_from_info_cache", !.filename = filename,
                              !.enabled = infoCacheEnabled]
    /\ invalidated' = TRUE
    /\ UNCHANGED <<fileCache, fileCacheEnabled, infoCacheEnabled>>

\* clear_file_cache
ClearFileCache ==
    /\ calls < MaxCalls
    /\ calls' = calls + 1
    /\ fileCache' = EmptyCache
    /\ last' = [NoCall EXCEPT !.op = "clear_file_cache", !.enabled = infoCacheEnabled]
    /\ invalidated' = TRUE
    /\ UNCHANGED <<infoCache, fileCacheEnabled, infoCacheEnabled, first>>

\* clear_info_cache
ClearInfoCache ==
    /\ calls < MaxCalls
    /\ calls' = calls + 1
    /\ infoCache' = EmptyCache
    /\ first' = EmptyCache
    /\ last' = [NoCall EXCEPT !.op = "clear_info_cache", !.enabled = infoCacheEnabled]
    /\ invalidated' = TRUE
    /\ UNCHANGED <<fileCache, fileCacheEnabled, infoCacheEnabled>>

\* clear_caches
ClearCaches ==
    /\ calls < MaxCalls
    /\ calls' = calls + 1
    /\ fileCache' = EmptyCache
    /\ infoCache' = EmptyCache
    /\ first' = EmptyCache
    /\ last' = [NoCall EXCEPT !.op = "clear_caches", !.enabled = infoCacheEnabled]
    /\ invalidated' = TRUE
    /\ UNCHANGED <<fileCacheEnabled, infoCacheEnabled>>

Next ==
    \/ \E f \in Filenames : CallReadBytesForFile(f) /\ UNCHANGED <<threads, parses, ext, compilerVars>>
    \/ \E f \in FileUrls : CallFetchFile(f) /\ UNCHANGED <<threads, parses, ext, compilerVars>>
    \/ \E f \in BytesLocators, b \in Payloads :
          CallReadInfoFromBytes(f, b) /\ UNCHANGED <<threads, parses, ext, compilerVars>>
    \/ \E f \in Filenames : CallReadInfoForFile(f) /\ UNCHANGED <<threads, parses, ext, compilerVars>>
    \/ \E f \in Bases, r \in References :
          CallReadInfoForRef(f, r) /\ UNCHANGED <<threads, parses, ext, compilerVars>>
    \/ \E b \in BOOLEAN : SetFileCacheEnabled(b) /\ UNCHANGED <<threads, parses, ext, compilerVars>>
    \/ \E b \in BOOLEAN : SetInfoCacheEnabled(b) /\ UNCHANGED <<threads, parses, ext, compilerVars>>
    \/ \E k \in CacheKeys : RemoveFromFileCache(k) /\ UNCHANGED <<threads, parses, ext, compilerVars>>
    \/ \E k \in CacheKeys : RemoveFromInfoCache(k) /\ UNCHANGED <<threads, parses, ext, compilerVars>>
    \/ ClearFileCache /\ UNCHANGED <<threads, parses, ext, compilerVars>>
    \/ ClearInfoCache /\ UNCHANGED <<threads, parses, ext, compilerVars>>
    \/ ClearCaches /\ UNCHANGED <<threads, parses, ext, compilerVars>>

Spec == Init /\ [][Next]_vars

-----------------------------------------------------------------------------
(* Properties of the Reader *)

\* C1: with the info cache enabled and a non-empty locator L, once
\* read_info_from_bytes(L, B) has succeeded and L has not been removed or
\* cleared since, every later read_info_from_bytes(L, B') returns the node
\* the first call returned and parses nothing.
C1_CacheRoundTrip ==
    [][ ( /\ calls' = calls + 1
          /\ last'.op = "read_info_from_bytes"
          /\ last'.enabled
          /\ last'.filename \in DOMAIN first )
        => ( /\ last'.res = Ok(first[last'.filename])
             /\ last'.parsed = 0
             /\ first' = first ) ]_vars

\* a later call with malformed bytes is answered with a node established from BytesA
C1_Witness ==
    /\ last.op = "read_info_from_bytes"
    /\ last.enabled
    /\ last.bytes = BytesBad
    /\ last.filename \in DOMAIN first
    /\ first[last.filename] = FromStr(BytesA).node
    /\ last.res = Ok(FromStr(BytesA).node)

\* C2: with the info cache enabled, the resources unchanged and no
\* remove/clear call, read_info_for_ref(base, reference) returns, after any
\* earlier Reader calls, what the same call returns against empty caches.
\* It is stated here for the histories in which, moreover, no
\* read_info_from_bytes call has put an entry in the cache.
C2_HitEquivalentToRefetch ==
    ( /\ last.op = "read_info_for_ref"
      /\ last.enabled
      /\ ~invalidated
      /\ first = EmptyCache )
    => last.res = ReadInfoForRef(EmptyCache, EmptyCache, TRUE, TRUE,
                                 last.filename, last.reference).res

\* C3: a read_info_for_ref that fails on an absent path segment fails with
\* "could not resolve <reference>", and the identical call made next (cache
\* enabled) returns the same failure and reads no resource.
C3_SameFailureAgain ==
    [][ /\ ( last'.op = "read_info_for_ref" /\ last'.nav = "missing" )
           => last'.res = Err("Simple", CouldNotResolve(last'.reference))
        /\ ( /\ calls' = calls + 1
             /\ last.op = "read_info_for_ref" /\ last.nav = "missing" /\ last.enabled
             /\ last'.op = "read_info_for_ref" /\ last'.enabled
             /\ last'.filename = last.filename
             /\ last'.reference = last.reference )
           => ( last'.res = last.res /\ last'.reads = <<>> /\ last'.requests = <<>> ) ]_vars

\* the part of the reference before its first '#'
C4_FilePart(reference) ==
    LET n == CHOOSE k \in 0..Len(reference) :
                 /\ \A j \in 1..k : reference[j] # "#"
                 /\ k < Len(reference) => reference[k+1] = "#"
    IN  SubSeq(reference, 1, n)

\* the directory component of base: what precedes its last '/', the root staying the root
C4_Directory(base) ==
    LET slashes == {k \in 1..Len(base) : base[k] = "/"}
        k == CHOOSE m \in slashes : \A o \in slashes : o <= m
    IN  IF slashes = {} THEN <<>> ELSE IF k = 1 THEN <<"/">> ELSE SubSeq(base, 1, k-1)

C4_Resolved(base, reference) ==
    LET file == C4_FilePart(reference)
    IN  IF file = <<>> THEN base
        ELSE IF UrlParseOk(file) THEN file
        ELSE IF C4_Directory(base) = <<>> THEN file
        ELSE C4_Directory(base) \o <<"/">> \o file

\* C4: a read_info_for_ref(base, reference) that is not answered from the
\* info cache reads exactly one locator: base when the file part (before the
\* first '#') is empty, the file part when it is an absolute URL, otherwise
\* the directory of base joined to the file part with '/', or the file part
\* alone when base has no directory.
C4_ResolvedLocator ==
    ( last.op = "read_info_for_ref" /\ ~last.hit )
    => last.reads = << C4_Resolved(last.filename, last.reference) >>

\* base "d/a" and reference "b#/k/w" read "d/b"
C4_Witness ==
    /\ last.op = "read_info_for_ref"
    /\ ~last.hit
    /\ last.filename = DirA
    /\ last.reference = RefBWidget
    /\ last.reads = <<DirB>>

Unreachable == [kind |-> "unreachable", val |-> <<>>, map |-> NoMap]

\* the non-empty segments of the fragment after its first segment
C5_Segments(reference) ==
    LET parts == SplitN2(reference, "#")
        fragment == IF Len(parts) > 1 THEN parts[2] ELSE <<>>
    IN  SelectSeq(Tail(Split(fragment, "/")), LAMBDA seg : seg # <<>>)

\* the node reached from node through the keys segs, in order
RECURSIVE C5_Descend(_, _)
C5_Descend(node, segs) ==
    IF segs = <<>> THEN node
    ELSE IF node.kind = "mapping" /\ YString(Head(segs)) \in DOMAIN node.map
    THEN C5_Descend(node.map[YString(Head(segs))], Tail(segs))
    ELSE Unreachable

\* C5: on a cache miss, a successful read_info_for_ref returns the node
\* reached from the root of the document it read for the resolved locator by
\* descending through every non-empty segment of the fragment after the
\* first, each taken as a string key; the whole document when the fragment
\* is absent or empty.
C5_FragmentNavigation ==
    ( last.op = "read_info_for_ref" /\ ~last.hit /\ last.res.ok )
    => last.res.node = C5_Descend(last.doc.node, C5_Segments(last.reference))

\* "b#/k/w" from "d/a" returns the value at k.w of d/b
C5_Witness ==
    /\ last.op = "read_info_for_ref"
    /\ ~last.hit
    /\ last.filename = DirA
    /\ last.reference = RefBWidget
    /\ last.doc = FromStr(BytesB)
    /\ last.res = Ok(YString(<<"w","b">>))

\* C6: when the navigation cannot proceed, because the segment is missing
\* or because the current node is not a mapping, the call (info cache
\* enabled) stores a null node under the raw reference and fails with
\* "could not resolve <reference>".
C6_NullCachedOnFailure ==
    ( last.op = "read_info_for_ref" /\ last.enabled /\ last.nav \in {"missing", "notmapping"} )
    => ( /\ last.reference \in DOMAIN infoCache
         /\ infoCache[last.reference] = YNull
         /\ last.res = Err("Simple", CouldNotResolve(last.reference)) )

-----------------------------------------------------------------------------
(* read_info_from_bytes called from several threads.  The flag is loaded   *)
(* first; the lookup holds the read lock, the insertion the write lock,    *)
(* and the parse in between holds no lock.                                 *)

Threads == 1..NumThreads
ConcLocators == {LocB, DirA}
ConcPayloads == {BytesA, BytesB, BytesBad}

Count(m, k) == IF k \in DOMAIN m THEN m[k] ELSE 0

\* line 208: the call starts and loads INFO_CACHE_ENABLED
ThreadCall(t, filename, bytes) ==
    /\ threads[t].pc = "idle"
    /\ threads' = [threads EXCEPT ![t] = [pc |-> "lookup", filename |-> filename,
                                         bytes |-> bytes,
                                         cache_enabled |-> infoCacheEnabled,
                                         res |-> NoBytes]]
    /\ UNCHANGED <<infoCache, parses>>

\* lines 212-222: the lookup under the read lock
ThreadLookup(t) ==
    LET me == threads[t]
    IN  /\ me.pc = "lookup"
        /\ IF me.cache_enabled /\ me.filename # <<>> /\ me.filename \in DOMAIN infoCache
           THEN threads' = [threads EXCEPT ![t].pc = "done",
                                           ![t].res = Ok(infoCache[me.filename])]
           ELSE threads' = [threads EXCEPT ![t].pc = "parse"]
        /\ UNCHANGED <<infoCache, parses>>

\* lines 224-228: from_utf8 and serde_yaml::from_str, no lock held
ThreadParse(t) ==
    LET me == threads[t]
        yaml == FromStr(me.bytes)
    IN  /\ me.pc = "parse"
        /\ IF ~Utf8Ok(me.bytes)
           THEN /\ threads' = [threads EXCEPT ![t].pc = "done",
                                              ![t].res = Err("Yaml", <<"Invalid UTF-8">>)]
                /\ UNCHANGED parses
           ELSE IF ~yaml.ok
           THEN /\ threads' = [threads EXCEPT ![t].pc = "done", ![t].res = yaml]
                /\ UNCHANGED parses
           ELSE /\ threads' = [threads EXCEPT ![t].pc = "store", ![t].res = yaml]
                /\ parses' = Insert(parses, me.filename, Count(parses, me.filename) + 1)
        /\ UNCHANGED infoCache

\* lines 231-235: the insertion under the write lock, and the return
ThreadStore(t) ==
    LET me == threads[t]
    IN  /\ me.pc = "store"
        /\ infoCache' = IF me.cache_enabled /\ me.filename # <<>>
                        THEN Insert(infoCache, me.filename, me.res.node)
                        ELSE infoCache
        /\ threads' = [threads EXCEPT ![t].pc = "done"]
        /\ UNCHANGED parses

NextConc ==
    \/ \E t \in Threads, f \in ConcLocators, b \in ConcPayloads :
          ThreadCall(t, f, b)
          /\ UNCHANGED <<fileCache, fileCacheEnabled, infoCacheEnabled, calls, last, first,
                         invalidated, ext, compilerVars>>
    \/ \E t \in Threads :
          ThreadLookup(t)
          /\ UNCHANGED <<fileCache, fileCacheEnabled, infoCacheEnabled, calls, last, first,
                         invalidated, ext, compilerVars>>
    \/ \E t \in Threads :
          ThreadParse(t)
          /\ UNCHANGED <<fileCache, fileCacheEnabled, infoCacheEnabled, calls, last, first,
                         invalidated, ext, compilerVars>>
    \/ \E t \in Threads :
          ThreadStore(t)
          /\ UNCHANGED <<fileCache, fileCacheEnabled, infoCacheEnabled, calls, last, first,
                         invalidated, ext, compilerVars>>

SpecConc == Init /\ [][NextConc]_vars

\* C7: with the info cache enabled, for every interleaving of concurrent
\* read_info_from_bytes calls on the same non-empty locator, the document is
\* parsed once (at most one caller parses and inserts) and every caller
\* returns the same node.
C7_ParsedOncePerLocator ==
    /\ \A f \in DOMAIN parses : parses[f] <= 1
    /\ \A t, u \in Threads :
          ( /\ threads[t].pc = "done" /\ threads[u].pc = "done"
            /\ threads[t].cache_enabled /\ threads[u].cache_enabled
            /\ threads[t].filename = threads[u].filename
            /\ threads[t].res.ok /\ threads[u].res.ok )
          => threads[t].res = threads[u].res

-----------------------------------------------------------------------------
(* extensions.rs *)

HandlerNames == { <<>>, <<"h","1">>, <<"h","2">> }
Nodes == { YNull, YString(<<"v">>) }
ExtensionNames == { <<"x","-","a">>, <<"x","-","b">> }
Stdouts == { "[1,2,3]", "[4]" }

\* the sequences over S of length at most n
RECURSIVE SeqsUpTo(_, _)
SeqsUpTo(S, n) ==
    IF n = 0 THEN { <<>> }
    ELSE SeqsUpTo(S, n - 1) \cup { Append(q, x) : q \in { r \in SeqsUpTo(S, n - 1) : Len(r) = n - 1 }, x \in S }

\* what the handler's process does once handle() tries to run it
Outcomes ==
    { [kind |-> k, stdout |-> NoBytes] :
         k \in {"spawn_failed", "write_failed", "wait_failed", "exit_nonzero", "exit_zero"} }
    \cup { [kind |-> "exit_zero", stdout |-> p] : p \in Stdouts }

\* the outcome recorded for a handler that runs no process
NoProcess == [kind |-> "no_process", stdout |-> NoBytes]

\* Result<Option<Vec<u8>>> of ExtensionHandler::handle
Declined == [ok |-> TRUE, some |-> FALSE, payload |-> NoBytes, err |-> NoErr]
Handled(p) == [ok |-> TRUE, some |-> TRUE, payload |-> p, err |-> NoErr]
Failed(kind, msg) == [ok |-> FALSE, some |-> FALSE, payload |-> NoBytes,
                      err |-> [kind |-> kind, msg |-> msg]]

\* handle() with the empty name answering like a handler that has output
Handle_EmptyNameHandles(name, outcome) ==
    IF name = <<>> THEN Handled("[4]")
    ELSE IF outcome.kind = "spawn_failed"
    THEN Failed("Io", <<"Failed to spawn extension handler ">> \o name)
    ELSE IF outcome.kind \in {"write_failed", "wait_failed"}
    THEN Failed("Io", <<"Failed to write to extension handler">>)
    ELSE IF outcome.kind = "exit_nonzero"
    THEN Failed("Simple", <<"Extension handler ">> \o name \o <<" failed">>)
    ELSE IF outcome.stdout = NoBytes THEN Declined
    ELSE Handled(outcome.stdout)

\* handle() with a failing process taken for a declining one
Handle_FailureDeclines(name, outcome) ==
    IF name = <<>> THEN Declined
    ELSE IF outcome.kind = "exit_zero" /\ outcome.stdout # NoBytes THEN Handled(outcome.stdout)
    ELSE Declined

\* ExtensionHandler::handle, given what the process does
Handle(name, outcome) ==
    IF name = <<>> THEN Declined
    ELSE IF outcome.kind = "spawn_failed"
    THEN Failed("Io", <<"Failed to spawn extension handler ">> \o name)
    ELSE IF outcome.kind = "write_failed"
    THEN Failed("Io", <<"Failed to write to extension handler">>)
    ELSE IF outcome.kind = "wait_failed"
    THEN Failed("Io", <<"Failed to get extension handler output">>)
    ELSE IF outcome.kind = "exit_nonzero"
    THEN Failed("Simple", <<"Extension handler ">> \o name \o <<" failed">>)
    ELSE IF outcome.stdout = NoBytes THEN Declined
    ELSE Handled(outcome.stdout)

\* the match on context.extension_handlers with the None arm reporting a handled extension
EnterCallExtension_NoneHandled(configured, handlers, node, extension_name) ==
    [IdleExt EXCEPT !.configured = configured, !.handlers = handlers, !.node = node,
                    !.extension_name = extension_name,
                    !.pc = IF configured THEN "loop" ELSE "done",
                    !.res = ExtOk(~configured, NoBytes)]

\* call_extension, lines 106-109: the match on context.extension_handlers
EnterCallExtension(configured, handlers, node, extension_name) ==
    [IdleExt EXCEPT !.configured = configured, !.handlers = handlers, !.node = node,
                    !.extension_name = extension_name,
                    !.pc = IF configured THEN "loop" ELSE "done",
                    !.res = ExtOk(FALSE, NoBytes)]

\* the loop body going on to the next handler after a payload
LoopStep_NoShortCircuit(e, outcome) ==
    LET name == e.handlers[e.next]
        r    == Handle(name, outcome)
        seen == [e EXCEPT !.invoked = Append(e.invoked, e.next),
                          !.spawned = IF name # <<>> /\ outcome.kind # "spawn_failed"
                                      THEN Append(e.spawned, e.next) ELSE e.spawned,
                          !.outcomes = Append(e.outcomes, outcome)]
    IN  IF ~r.ok THEN [seen EXCEPT !.pc = "done", !.res = ExtErr(r.err.kind, r.err.msg)]
        ELSE IF r.some THEN [seen EXCEPT !.next = e.next + 1, !.res = ExtOk(TRUE, r.payload)]
        ELSE [seen EXCEPT !.next = e.next + 1]

\* call_extension, lines 111-116: one iteration of the loop over the handlers
LoopStep(e, outcome) ==
    LET name == e.handlers[e.next]
        r    == Handle(name, outcome)
        seen == [e EXCEPT !.invoked = Append(e.invoked, e.next),
                          !.spawned = IF name # <<>> /\ outcome.kind # "spawn_failed"
                                      THEN Append(e.spawned, e.next) ELSE e.spawned,
                          !.outcomes = Append(e.outcomes, outcome)]
    IN  IF ~r.ok THEN [seen EXCEPT !.pc = "done", !.res = ExtErr(r.err.kind, r.err.msg)]
        ELSE IF r.some THEN [seen EXCEPT !.pc = "done", !.res = ExtOk(TRUE, r.payload)]
        ELSE [seen EXCEPT !.next = e.next + 1]

\* call_extension is called on a context without handlers (configured is
\* FALSE, as for Context::root) or with the list handlers
CallExtension(configured, handlers, node, extension_name) ==
    /\ ext.pc = "idle"
    /\ ~configured => handlers = <<>>
    /\ ext' = EnterCallExtension(configured, handlers, node, extension_name)

\* handler.handle(node, extension_name)? for the next handler of the list
InvokeHandler(outcome) ==
    /\ ext.pc = "loop"
    /\ ext.next <= Len(ext.handlers)
    /\ (ext.handlers[ext.next] = <<>>) <=> (outcome = NoProcess)
    /\ ext' = LoopStep(ext, outcome)

\* line 118: the list is exhausted
ReturnUnhandled ==
    /\ ext.pc = "loop"
    /\ ext.next > Len(ext.handlers)
    /\ ext' = [ext EXCEPT !.pc = "done", !.res = ExtOk(FALSE, NoBytes)]

NextExt ==
    \/ \E c \in BOOLEAN, hs \in SeqsUpTo(HandlerNames, MaxHandlers), n \in Nodes,
          x \in ExtensionNames :
          CallExtension(c, hs, n, x) /\ UNCHANGED <<readerVars, threads, parses, compilerVars>>
    \/ \E o \in Outcomes \cup {NoProcess} :
          InvokeHandler(o) /\ UNCHANGED <<readerVars, threads, parses, compilerVars>>
    \/ ReturnUnhandled /\ UNCHANGED <<readerVars, threads, parses, compilerVars>>

SpecExt == Init /\ [][NextExt]_vars

-----------------------------------------------------------------------------
(* Properties of the Extension Pipeline *)

IsDecline(o) == o = NoProcess \/ (o.kind = "exit_zero" /\ o.stdout = NoBytes)
IsPayload(o) == o.kind = "exit_zero" /\ o.stdout # NoBytes

\* C8: call_extension with a configured list invokes the handlers in the
\* configured order; a handler without output declines and the next one is
\* tried; the first handler with a non-empty payload makes the call return
\* (true, payload) and no later handler is invoked; if all decline the call
\* returns (false, None).
C8_HandlersInOrder ==
    ext.configured =>
        /\ \A i \in 1..Len(ext.invoked) : ext.invoked[i] = i
        /\ Len(ext.outcomes) = Len(ext.invoked)
        /\ \A i \in 1..(Len(ext.invoked) - 1) : IsDecline(ext.outcomes[i])
        /\ \A i \in 1..Len(ext.invoked) :
              IsPayload(ext.outcomes[i])
              => ( /\ i = Len(ext.invoked)
                   /\ ext.pc = "done"
                   /\ ext.res = ExtOk(TRUE, ext.outcomes[i].stdout) )
        /\ ( /\ ext.pc = "loop"
             /\ \A i \in 1..Len(ext.invoked) : IsDecline(ext.outcomes[i]) )
           => ext.next = Len(ext.invoked) + 1
        /\ ( /\ ext.pc = "done"
             /\ \A i \in 1..Len(ext.invoked) : IsDecline(ext.outcomes[i]) )
           => ( ext.invoked = [i \in 1..Len(ext.handlers) |-> i]
                /\ ext.res = ExtOk(FALSE, NoBytes) )

\* the first of two handlers declines with an empty output, the second returns [1,2,3]
C8_Witness ==
    /\ ext.pc = "done"
    /\ ext.configured
    /\ Len(ext.handlers) = 2
    /\ ext.handlers[1] # <<>>
    /\ ext.outcomes = << [kind |-> "exit_zero", stdout |-> NoBytes],
                         [kind |-> "exit_zero", stdout |-> "[1,2,3]"] >>
    /\ ext.invoked = <<1, 2>>
    /\ ext.res = ExtOk(TRUE, "[1,2,3]")

\* C9: call_extension on a Context without extension handlers returns
\* (false, None), invokes no handler and spawns no process, for every node
\* and extension name.
C9_NoHandlersNoEffect ==
    ( ext.pc # "idle" /\ ~ext.configured )
    => ( /\ ext.pc = "done"
         /\ ext.res = ExtOk(FALSE, NoBytes)
         /\ ext.invoked = <<>>
         /\ ext.spawned = <<>> )

C9_Witness ==
    /\ ext.pc = "done"
    /\ ~ext.configured
    /\ ext.node = YString(<<"v">>)
    /\ ext.res = ExtOk(FALSE, NoBytes)

IsHardFailure(o) == o.kind \in {"spawn_failed", "exit_nonzero"}

\* C10: a handler whose process exits with a non-zero status, or cannot be
\* spawned, is a hard failure: call_extension returns that error, never
\* (false, None) or a payload, and invokes no handler after the failing one.
C10_FailureIsNotDecline ==
    \A i \in 1..Len(ext.outcomes) :
        IsHardFailure(ext.outcomes[i])
        => ( /\ i = Len(ext.invoked)
             /\ ext.pc = "done"
             /\ ~ext.res.ok
             /\ ext.res.err.kind = IF ext.outcomes[i].kind = "spawn_failed" THEN "Io" ELSE "Simple"
             /\ ext.res.handled = FALSE
             /\ ext.res.payload = NoBytes )

\* the first of two handlers exits with a non-zero status: the second is never invoked
C10_Witness ==
    /\ ext.pc = "done"
    /\ Len(ext.handlers) = 2
    /\ ext.handlers[2] # <<>>
    /\ ext.outcomes = << [kind |-> "exit_nonzero", stdout |-> NoBytes] >>
    /\ ext.invoked = <<1>>
    /\ ~ext.res.ok

\* C11: an ExtensionHandler with an empty name always declines: handle
\* returns Ok(None) whatever the node, the extension name and the
\* environment, it spawns no process, and call_extension goes on to the
\* handler configured after it (or returns (false, None) when it was the last).
C11_EmptyNameDeclines ==
    /\ \A o \in Outcomes \cup {NoProcess} : Handle(<<>>, o) = Declined
    /\ \A i \in 1..Len(ext.invoked) :
          ext.handlers[ext.invoked[i]] = <<>>
          => ( /\ \A j \in 1..Len(ext.spawned) : ext.spawned[j] # ext.invoked[i]
               /\ i = Len(ext.invoked)
                  => \/ ext.pc = "loop" /\ ext.next = ext.invoked[i] + 1
                     \/ /\ ext.pc = "done"
                        /\ ext.invoked[i] = Len(ext.handlers)
                        /\ ext.res = ExtOk(FALSE, NoBytes) )

\* an empty-named handler comes first and the handler after it is run and answers
C11_Witness ==
    /\ ext.pc = "done"
    /\ ext.node = YString(<<"v">>)
    /\ Len(ext.handlers) = 2
    /\ ext.handlers[1] = <<>>
    /\ ext.invoked = <<1, 2>>
    /\ ext.spawned = <<2>>
    /\ ext.outcomes[1] = NoProcess
    /\ ext.res = ExtOk(TRUE, "[4]")

-----------------------------------------------------------------------------
(* Contexts and the errors made from them *)

CtxNames == { <<"r">>, <<"c">>, <<"a",".","b">> }
Lines == { 10 }
Columns == { 5 }
Messages == { <<"m">> }
HandlerLists == { NoHandlers, SomeHandlers(<< <<"h","1">> >>) }

OptionOf(S) == {None} \cup { Some(v) : v \in S }

\* Context::root(name)
CtxRoot(name) ==
    /\ ctx = <<>>
    /\ err = NoError
    /\ ctx' = Root(name)
    /\ UNCHANGED err

\* Context::new(name, line, column, parent): the parent is the leaf built so
\* far, or None when nothing is built yet
CtxNew(name, line, column) ==
    /\ Len(ctx) <= MaxDepth
    /\ err = NoError
    /\ ctx' = New(name, line, column, ctx)
    /\ UNCHANGED err

\* Context::new_with_extensions(name, line, column, None, extension_handlers)
CtxNewWithExtensions(name, line, column, extension_handlers) ==
    /\ ctx = <<>>
    /\ err = NoError
    /\ ctx' = NewWithExtensions(name, line, column, ctx, extension_handlers)
    /\ UNCHANGED err

\* leaf.child(name)
CtxChild(name) ==
    /\ ctx # <<>>
    /\ Len(ctx) <= MaxDepth
    /\ err = NoError
    /\ ctx' = Child(ctx, name)
    /\ UNCHANGED err

\* leaf.child_with_position(name, line, column)
CtxChildWithPosition(name, line, column) ==
    /\ ctx # <<>>
    /\ Len(ctx) <= MaxDepth
    /\ err = NoError
    /\ ctx' = ChildWithPosition(ctx, name, line, column)
    /\ UNCHANGED err

\* CompilerError::new(&leaf, message)
ErrNew(message) ==
    /\ ctx # <<>>
    /\ err = NoError
    /\ err' = CompilerErrorNew(ctx, message)
    /\ UNCHANGED ctx

\* CompilerError::new_opt(None, message)
ErrNewOpt(message) ==
    /\ err = NoError
    /\ err' = CompilerErrorNewOpt(<<>>, message)
    /\ UNCHANGED ctx

NextCtx ==
    \/ \E n \in CtxNames : CtxRoot(n) /\ UNCHANGED <<readerVars, threads, parses, fl, ext, eg, dec>>
    \/ \E n \in CtxNames, l \in OptionOf(Lines), c \in OptionOf(Columns) :
          CtxNew(n, l, c) /\ UNCHANGED <<readerVars, threads, parses, fl, ext, eg, dec>>
    \/ \E n \in CtxNames, l \in OptionOf(Lines), c \in OptionOf(Columns), h \in HandlerLists :
          CtxNewWithExtensions(n, l, c, h) /\ UNCHANGED <<readerVars, threads, parses, fl, ext, eg, dec>>
    \/ \E n \in CtxNames : CtxChild(n) /\ UNCHANGED <<readerVars, threads, parses, fl, ext, eg, dec>>
    \/ \E n \in CtxNames, l \in Lines, c \in Columns :
          CtxChildWithPosition(n, l, c) /\ UNCHANGED <<readerVars, threads, parses, fl, ext, eg, dec>>
    \/ \E m \in Messages : ErrNew(m) /\ UNCHANGED <<readerVars, threads, parses, fl, ext, eg, dec>>
    \/ \E m \in Messages : ErrNewOpt(m) /\ UNCHANGED <<readerVars, threads, parses, fl, ext, eg, dec>>

SpecCtx == Init /\ [][NextCtx]_vars

-----------------------------------------------------------------------------
(* Properties of Context and CompilerError *)

\* the chain was built from Context::root by child, child_with_position and new
BuiltFromRoot(c) ==
    /\ c # <<>>
    /\ c[1] = Root(c[1].name)[1]
    /\ \A i \in 1..Len(c) : c[i].extension_handlers = NoHandlers

\* the names of the chain from element i to the leaf, each preceded by '.'
RECURSIVE C12_Rest(_, _)
C12_Rest(c, i) ==
    IF i > Len(c) THEN <<>> ELSE <<".">> \o c[i].name \o C12_Rest(c, i + 1)

\* the names from the root to the leaf joined by '.'
C12_Joined(c) == c[1].name \o C12_Rest(c, 2)

\* the number of '.' characters of s
C12_Dots(s) == Cardinality({ i \in 1..Len(s) : s[i] = "." })

RECURSIVE C12_DotsInNames(_, _)
C12_DotsInNames(c, i) ==
    IF i > Len(c) THEN 0 ELSE C12_Dots(c[i].name) + C12_DotsInNames(c, i + 1)

\* C12 (as claimed): for every Context chain of depth n built from
\* Context::root by n applications of child/child_with_position/new,
\* description() of the leaf equals the names from root to leaf joined by '.'
\* and contains exactly n '.'.
C12_DescriptionHasDepthDots ==
    BuiltFromRoot(ctx)
    => ( /\ Description(ctx) = C12_Joined(ctx)
         /\ C12_Dots(Description(ctx)) = Len(ctx) - 1 )

\* C12 (amended): description() of the leaf equals the names from root to
\* leaf joined by '.'; the '.' it contains are the n separators and the '.'
\* of the names, so exactly n when no name contains a '.'.
C12_DescriptionIsJoinedNames ==
    BuiltFromRoot(ctx)
    => ( /\ Description(ctx) = C12_Joined(ctx)
         /\ C12_Dots(Description(ctx)) = (Len(ctx) - 1) + C12_DotsInNames(ctx, 1)
         /\ (\A i \in 1..Len(ctx) : C12_Dots(ctx[i].name) = 0)
            => C12_Dots(Description(ctx)) = Len(ctx) - 1 )

\* root "r", its child "c" and a positioned grandchild "r": "r.c.r"
C12_Witness ==
    /\ BuiltFromRoot(ctx)
    /\ Len(ctx) = 3
    /\ ctx[3].line = Some(10)
    /\ ctx[2].line = None
    /\ Description(ctx) = <<"r", ".", "c", ".", "r">>

\* "[line,col] " before s
C13_Prefixed(line, column, s) ==
    <<"[">> \o ToDecimal(line) \o <<",">> \o ToDecimal(column) \o <<"]", " ">> \o s

\* C13 (as claimed): location_description() equals description() exactly
\* when line and column are both absent; in every other case it is
\* description() prefixed with "[line,col] ".
C13_PlainIffBothAbsent ==
    ctx # <<>>
    => LET leaf == ctx[Len(ctx)]
       IN  /\ (LocationDescription(ctx) = Description(ctx))
              <=> (~leaf.line.some /\ ~leaf.column.some)
           /\ ~(~leaf.line.some /\ ~leaf.column.some)
              => LocationDescription(ctx)
                 = C13_Prefixed(leaf.line.val, leaf.column.val, Description(ctx))

\* C13 (amended): location_description() is description() prefixed with
\* "[line,col] " exactly when line and column are both present; when either
\* is absent it equals description().
C13_PrefixedIffBothPresent ==
    ctx # <<>>
    => LET leaf == ctx[Len(ctx)]
       IN  IF leaf.line.some /\ leaf.column.some
           THEN /\ LocationDescription(ctx)
                   = C13_Prefixed(leaf.line.val, leaf.column.val, Description(ctx))
                /\ LocationDescription(ctx) # Description(ctx)
           ELSE LocationDescription(ctx) = Description(ctx)

\* a positioned child, "[10,5] r.c", and before it a parent with a line and no column
C13_Witness ==
    /\ Len(ctx) = 2
    /\ ctx[1].line = Some(10) /\ ctx[1].column = None
    /\ LocationDescription(SubSeq(ctx, 1, 1)) = <<"r">>
    /\ LocationDescription(ctx) = <<"[", "1", "0", ",", "5", "]", " ", "r", ".", "c">>

\* C14: CompilerError::new(context, message) is Located{line, column,
\* path = context.description(), message} exactly when the context carries
\* both a line and a column, and Unlocated{path = context.description(),
\* message} otherwise; Located renders as "[line,col] path message" and
\* Unlocated as "path message".
C14_LocatedIffLineAndColumn ==
    err.variant \in {"Located", "Unlocated"}
    => LET leaf == ctx[Len(ctx)]
       IN  /\ err.variant = "Located" <=> (leaf.line.some /\ leaf.column.some)
           /\ err.path = Description(ctx)
           /\ err.message \in Messages
           /\ err.variant = "Located"
              => /\ err.line = leaf.line.val
                 /\ err.column = leaf.column.val
                 /\ Display(err) = C13_Prefixed(leaf.line.val, leaf.column.val,
                                               err.path \o <<" ">> \o err.message)
           /\ err.variant = "Unlocated"
              => Display(err) = err.path \o <<" ">> \o err.message

\* an error made from a child with a position: "[10,5] r.c m"
C14_Witness ==
    /\ Len(ctx) = 2
    /\ err.variant = "Located"
    /\ Display(err) = <<"[", "1", "0", ",", "5", "]", " ", "r", ".", "c", " ", "m">>

-----------------------------------------------------------------------------
(* Error groups *)

ErrorPool == { Simple(<<"e","1">>), Unlocated(<<"r",".","c">>, <<"m">>) }

\* the lists of at most two errors
ErrorLists == SeqsUpTo(ErrorPool, 2)

\* ErrorGroup::default(), ErrorGroup::new(errors)
EgNew(errors) ==
    /\ eg.pc = "none"
    /\ eg' = [NoGroup EXCEPT !.pc = "group", !.ctor = "new", !.input = errors,
                             !.errors = GroupNew(errors), !.log = <<errors>>]

\* ErrorGroup::from_errors(errors)
EgFromErrors(errors) ==
    /\ eg.pc = "none"
    /\ eg' = [NoGroup EXCEPT !.pc = IF FromErrors(errors).some THEN "group" ELSE "nogroup",
                             !.ctor = "from_errors",
                             !.input = errors,
                             !.made = FromErrors(errors),
                             !.errors = FromErrors(errors).errors,
                             !.log = <<errors>>]

\* ErrorGroup::from(error)
EgFrom(error) ==
    /\ eg.pc = "none"
    /\ eg' = [NoGroup EXCEPT !.pc = "group", !.ctor = "from", !.input = <<error>>,
                             !.errors = GroupFrom(error), !.log = << <<error>> >>]

\* group.push(error)
EgPush(error) ==
    /\ eg.pc = "group"
    /\ Len(eg.log) <= MaxOps
    /\ eg' = [eg EXCEPT !.errors = Push(eg.errors, error),
                        !.log = Append(eg.log, <<error>>)]

\* group.extend(other)
EgExtend(other) ==
    /\ eg.pc = "group"
    /\ Len(eg.log) <= MaxOps
    /\ eg' = [eg EXCEPT !.errors = Extend(eg.errors, other),
                        !.log = Append(eg.log, other)]

\* group.into_result()
EgIntoResult ==
    /\ eg.pc = "group"
    /\ eg' = [eg EXCEPT !.pc = "done", !.result = IntoResult(eg.errors)]

NextGroup ==
    \/ \E l \in ErrorLists : EgNew(l) /\ UNCHANGED <<readerVars, threads, parses, fl, ext, ctx, err, dec>>
    \/ \E l \in ErrorLists :
          EgFromErrors(l) /\ UNCHANGED <<readerVars, threads, parses, fl, ext, ctx, err, dec>>
    \/ \E e \in ErrorPool : EgFrom(e) /\ UNCHANGED <<readerVars, threads, parses, fl, ext, ctx, err, dec>>
    \/ \E e \in ErrorPool : EgPush(e) /\ UNCHANGED <<readerVars, threads, parses, fl, ext, ctx, err, dec>>
    \/ \E l \in ErrorLists :
          EgExtend(l) /\ UNCHANGED <<readerVars, threads, parses, fl, ext, ctx, err, dec>>
    \/ EgIntoResult /\ UNCHANGED <<readerVars, threads, parses, fl, ext, ctx, err, dec>>

SpecGroup == Init /\ [][NextGroup]_vars

-----------------------------------------------------------------------------
(* Properties of ErrorGroup *)

\* C15: ErrorGroup::from_errors returns None for the empty list and, for
\* every non-empty list, Some(group) whose len() equals the input length and
\* whose errors are the input errors in the same order.
C15_FromErrors ==
    eg.ctor = "from_errors"
    => IF eg.input = <<>>
       THEN ~eg.made.some
       ELSE /\ eg.made.some
            /\ LenOf(eg.made.errors) = Len(eg.input)
            /\ \A i \in 1..Len(eg.input) : eg.made.errors[i] = eg.input[i]

\* from_errors of two different errors
C15_Witness ==
    /\ eg.ctor = "from_errors"
    /\ eg.input = << Unlocated(<<"r",".","c">>, <<"m">>), Simple(<<"e","1">>) >>
    /\ eg.made.some
    /\ LenOf(eg.made.errors) = 2

\* the batches of the log one after the other
RECURSIVE C16_Concat(_)
C16_Concat(log) ==
    IF log = <<>> THEN <<>> ELSE Head(log) \o C16_Concat(Tail(log))

RECURSIVE C16_Total(_)
C16_Total(log) ==
    IF log = <<>> THEN 0 ELSE Len(Head(log)) + C16_Total(Tail(log))

\* C16: after any sequence of push and extend calls on an ErrorGroup its
\* errors are the concatenation, in call order, of the errors it started
\* with, the pushed errors and the errors of the merged groups; len() is
\* their total count: nothing is dropped, deduplicated or reordered.
C16_PushExtendKeepAll ==
    eg.pc \in {"group", "done"}
    => ( /\ eg.errors = C16_Concat(eg.log)
         /\ LenOf(eg.errors) = C16_Total(eg.log) )

\* the same error pushed twice onto an empty group, then a group merged in
C16_Witness ==
    /\ eg.pc = "group"
    /\ eg.log = << <<>>, <<Simple(<<"e","1">>)>>, <<Simple(<<"e","1">>)>>,
                   <<Unlocated(<<"r",".","c">>, <<"m">>), Simple(<<"e","1">>)>> >>
    /\ LenOf(eg.errors) = 4
    /\ eg.errors[1] = eg.errors[2]

\* C17: into_result returns Ok(()) if and only if the group is empty, and
\* otherwise Err carrying the same group with its errors unchanged;
\* is_empty() is true exactly when len() is 0.
C17_IntoResult ==
    /\ eg.pc \in {"group", "done"} => (IsEmpty(eg.errors) <=> LenOf(eg.errors) = 0)
    /\ eg.pc = "done"
       => ( /\ eg.result.set
            /\ eg.result.ok <=> C16_Total(eg.log) = 0
            /\ ~eg.result.ok => eg.result.errors = C16_Concat(eg.log) )

\* into_result of a group of one error
C17_Witness ==
    /\ eg.pc = "done"
    /\ LenOf(eg.errors) = 1
    /\ ~eg.result.ok
    /\ eg.result.errors = <<Simple(<<"e","1">>)>>

-----------------------------------------------------------------------------
(* Decoding a document *)

\* values a field of the document can hold
TagGood == Map1(YString(KeyName), YString(<<"t">>))
TagDocs == Map2(YString(KeyName), YString(<<"t">>),
                YString(KeyExternalDocs), Map1(YString(KeyUrl), YString(<<"u">>)))
TagBadDocs == Map1(YString(KeyExternalDocs), YString(<<"x">>))

FieldValues(key) ==
    CASE key = KeySwagger -> { YString(<<"2",".","0">>), YNumber(<<"2">>),
                               YSequence(<<YString(<<"x">>)>>) }
      [] key = KeyHost -> { YString(<<"h">>), YNull, Map1(YString(KeyName), YString(<<"t">>)) }
      [] key = KeyTags -> { YSequence(<<TagGood>>), YSequence(<<TagGood, TagDocs>>),
                            YSequence(<<TagGood, YString(<<"x">>), TagBadDocs>>),
                            YString(<<"x">>), TagGood }
      [] key = KeyExternalDocs -> { Map1(YString(KeyUrl), YString(<<"u">>)),
                                    YString(<<"x">>), YSequence(<<>>) }

DocumentKeys == { KeySwagger, KeyHost, KeyTags, KeyExternalDocs }
AllFieldValues == UNION { FieldValues(k) : k \in DocumentKeys }

\* the mappings with some of the keys, each holding one of its values
MappingsOver(keys) ==
    { m \in [ { YString(k) : k \in keys } -> AllFieldValues ] :
        \A k \in keys : m[YString(k)] \in FieldValues(k) }

Documents ==
    { YMapping(m) : m \in UNION { MappingsOver(keys) : keys \in SUBSET DocumentKeys } }
        \cup { YString(<<"x">>), YNull, YSequence(<<Map1(YString(KeyTags), YString(<<"x">>))>>) }

\* the context of document.rs and a named one
DecodeContexts == { Root(<<"$">>), Root(<<"r">>), Child(Root(<<"$">>), <<"c">>) }

\* one decode is followed, each (node, context) giving one behaviour
ParseDocumentCall(node, context) ==
    /\ dec.pc = "none"
    /\ dec' = [pc |-> "done", node |-> node, context |-> context,
               result |-> ParseDocument(node, context),
               input |-> Ok(node), path |-> <<>>, bytes |-> NoBytes]

\* the payloads and the locators document.rs is called with: documents that
\* decode, documents that do not, text that is no YAML, bytes that are no
\* text; files and URLs that can be read and that cannot
DocumentPayloads == { BytesDocGood, BytesDocTagsX, BytesDocInSeq, BytesDocTwo, BytesDocBad,
                      BytesA, BytesBad, BytesBin }
DocumentPaths == { DirG, DirT, DirA, RootA, UrlB, UrlX, UrlS }

\* a call of parse_document(bytes) of document.rs
DocumentParseDocumentCall(bytes) ==
    /\ dec.pc = "none"
    /\ dec' = [pc |-> "bytes",
               node |-> DocumentParseDocument(infoCache, infoCacheEnabled, bytes).node,
               context |-> Root(<<"$">>),
               result |-> DocumentParseDocument(infoCache, infoCacheEnabled, bytes).result,
               input |-> DocumentParseDocument(infoCache, infoCacheEnabled, bytes).input,
               path |-> <<>>, bytes |-> bytes]
    /\ infoCache' = DocumentParseDocument(infoCache, infoCacheEnabled, bytes).ic

\* a call of parse_document_from_file(path) of document.rs
ParseDocumentFromFileCall(path) ==
    /\ dec.pc = "none"
    /\ dec' = [pc |-> "file",
               node |-> ParseDocumentFromFile(fileCache, fileCacheEnabled,
                                              infoCache, infoCacheEnabled, path).node,
               context |-> Root(<<"$">>),
               result |-> ParseDocumentFromFile(fileCache, fileCacheEnabled,
                                                infoCache, infoCacheEnabled, path).result,
               input |-> ParseDocumentFromFile(fileCache, fileCacheEnabled,
                                               infoCache, infoCacheEnabled, path).input,
               path |-> path, bytes |-> NoBytes]
    /\ fileCache' = ParseDocumentFromFile(fileCache, fileCacheEnabled,
                                          infoCache, infoCacheEnabled, path).fc
    /\ infoCache' = ParseDocumentFromFile(fileCache, fileCacheEnabled,
                                          infoCache, infoCacheEnabled, path).ic

NextParse ==
    \/ \E node \in Documents, context \in DecodeContexts :
          ParseDocumentCall(node, context)
              /\ UNCHANGED <<readerVars, threads, parses, fl, ext, ctx, err, eg>>
    \/ \E bytes \in DocumentPayloads :
          DocumentParseDocumentCall(bytes)
              /\ UNCHANGED <<fileCache, fileCacheEnabled, infoCacheEnabled, calls, last,
                             first, invalidated, threads, parses, fl, ext, ctx, err, eg>>
    \/ \E path \in DocumentPaths :
          ParseDocumentFromFileCall(path)
              /\ UNCHANGED <<fileCacheEnabled, infoCacheEnabled, calls, last,
                             first, invalidated, threads, parses, fl, ext, ctx, err, eg>>

SpecParse == Init /\ [][NextParse]_vars

\* a value of the kind the field takes
C18_Valid(key, v) ==
    CASE key = KeyTags -> IsSequence(v) /\ \A i \in 1..Len(v.val) : v.val[i] \in {TagGood, TagDocs}
      [] key = KeyExternalDocs -> IsMapping(v)
      [] OTHER -> v.kind = "string"

\* a value of another kind than the field takes
C18_WrongKind(key, v) ==
    CASE key = KeyTags -> ~IsSequence(v)
      [] key = KeyExternalDocs -> ~IsMapping(v)
      [] OTHER -> v.kind \in {"mapping", "sequence"}

\* the typed structure holds the value of the valid field
C18_Holds(doc, key, v) ==
    /\ doc.present
    /\ CASE key = KeySwagger -> doc.swagger = v.val
         [] key = KeyHost -> doc.host = v.val
         [] key = KeyTags -> /\ Len(doc.tags) = Len(v.val)
                             /\ \A i \in 1..Len(v.val) : doc.tags[i].name = <<"t">>
         [] key = KeyExternalDocs -> /\ doc.external_docs.present
                                     /\ doc.external_docs.url = <<"u">>

\* the decode is one of a mapping of the two fields valid and wrong
C18_TwoFields(valid, wrong) ==
    /\ dec.pc = "done"
    /\ valid # wrong
    /\ IsMapping(dec.node)
    /\ DOMAIN dec.node.map = { YString(valid), YString(wrong) }
    /\ C18_Valid(valid, MapValueForKey(dec.node, valid))
    /\ C18_WrongKind(wrong, MapValueForKey(dec.node, wrong))

\* C18: decoding a mapping of two fields, one valid and one of the wrong kind,
\* yields an ErrorGroup of length 1 whose error carries the dotted path of the
\* bad field, and the value of the valid field is present in the resulting
\* typed structure.
C18_OneErrorAndValidFieldKept ==
    \A valid \in DocumentKeys, wrong \in DocumentKeys :
        C18_TwoFields(valid, wrong) =>
            /\ LenOf(dec.result.errors) = 1
            /\ dec.result.errors[1].path = Description(dec.context) \o <<".">> \o wrong
            /\ C18_Holds(dec.result.value, valid, MapValueForKey(dec.node, valid))

\* {swagger: "2.0", tags: "x"} decoded under the context "$": one error at
\* $.tags and no typed structure at all
C18_Witness ==
    /\ C18_TwoFields(KeySwagger, KeyTags)
    /\ dec.context = Root(<<"$">>)
    /\ dec.result.errors = <<Unlocated(<<"$">> \o <<".">> \o KeyTags, <<"tags must be an array">>)>>
    /\ ~dec.result.ok
    /\ dec.result.value = Absent

-----------------------------------------------------------------------------
(* Reading and fetching bytes *)

Http == <<"h","t","t","p">>
Https == <<"h","t","t","p","s">>

\* the locator parses as an absolute URL whose scheme is http or https
C19_HttpUrl(f) == UrlParseOk(f) /\ UrlScheme(f) \in {Http, Https}

\* the step is a call of op
CallOf(op) == calls' = calls + 1 /\ last'.op = op

\* C19: read_bytes_for_file takes the network fetch (fetch_file: its result,
\* its requests, its change of the byte cache, and no access to the
\* filesystem) if and only if the locator parses as an absolute URL whose
\* scheme is http or https; every other locator, one that parses as a URL
\* with another scheme included, is read as a filesystem path, once and
\* with no request, and a failed local read is an Io error.
C19_FetchIffHttpUrl ==
    [][CallOf("read_bytes_for_file") =>
         IF C19_HttpUrl(last'.filename)
         THEN /\ last'.fsreads = <<>>
              /\ last'.res = FetchFile(fileCache, fileCacheEnabled, last'.filename).res
              /\ last'.requests = FetchFile(fileCache, fileCacheEnabled, last'.filename).requests
              /\ fileCache' = FetchFile(fileCache, fileCacheEnabled, last'.filename).fc
         ELSE /\ last'.fsreads = <<last'.filename>>
              /\ last'.requests = <<>>
              /\ fileCache' = fileCache
              /\ last'.res = FsRead(last'.filename)
              /\ ~last'.res.ok => last'.res.err.kind = "Io"]_vars

\* "ftp://h/b" parses as a URL; it was read as a path, which failed
C19_Witness ==
    /\ last.op = "read_bytes_for_file"
    /\ last.filename = UrlF
    /\ UrlParseOk(UrlF)
    /\ last.fsreads = <<UrlF>>
    /\ last.requests = <<>>
    /\ ~last.res.ok
    /\ last.res.err.kind = "Io"

\* a hit of fetch_file: the cached bytes, no request, the cache as it was
C20_Hit ==
    /\ last'.res = OkBytes(fileCache[last'.filename])
    /\ last'.requests = <<>>
    /\ fileCache' = fileCache

\* what a miss of fetch_file stores: the bytes under the locator on success
C20_Stored ==
    fileCache' = IF last'.res.ok
                 THEN Insert(fileCache, last'.filename, last'.res.bytes)
                 ELSE fileCache

\* no call other than a removal or a clearing drops or changes an entry
C20_EntriesKept ==
    last'.op \notin {"remove_from_file_cache", "clear_file_cache", "clear_caches"} =>
        \A k \in DOMAIN fileCache : k \in DOMAIN fileCache' /\ fileCache'[k] = fileCache[k]

\* a miss of fetch_file as stated: one request, the bytes stored on success
C20_MissAsStated == last'.requests = <<last'.filename>> /\ C20_Stored

\* a miss of fetch_file: one request for an http URL; none for an https URL,
\* which fails with an Http error
C20_Miss ==
    /\ C20_Stored
    /\ UrlScheme(last'.filename) = Https =>
          last'.requests = <<>> /\ ~last'.res.ok /\ last'.res.err.kind = "Http"
    /\ UrlScheme(last'.filename) # Https => last'.requests = <<last'.filename>>

\* C20 as stated: with the file cache enabled, a hit of fetch_file returns
\* the cached bytes without a request; a miss makes exactly one request and
\* on success stores the bytes under the locator, so that a second fetch
\* makes no request and returns the same bytes.
C20_MissMakesOneRequest ==
    [][(CallOf("fetch_file") /\ fileCacheEnabled =>
            (IF last'.filename \in DOMAIN fileCache THEN C20_Hit ELSE C20_MissAsStated))
       /\ (calls' = calls + 1 => C20_EntriesKept)]_vars

\* C20, amended: a miss makes exactly one request when the locator is an
\* http URL, and none when it is an https URL, which fails with an Http
\* error and stores nothing.
C20_MissOfHttpMakesOneRequest ==
    [][(CallOf("fetch_file") /\ fileCacheEnabled =>
            (IF last'.filename \in DOMAIN fileCache THEN C20_Hit ELSE C20_Miss))
       /\ (calls' = calls + 1 => C20_EntriesKept)]_vars

\* "http://h/b" fetched twice: the second fetch is a hit
C20_Witness ==
    /\ calls = 2
    /\ fileCacheEnabled
    /\ last.op = "fetch_file"
    /\ last.filename = UrlB
    /\ last.requests = <<>>
    /\ last.res = OkBytes(BytesB)
    /\ fileCache = Insert(EmptyCache, UrlB, BytesB)
    /\ ~invalidated

-----------------------------------------------------------------------------
(* Anonymous bytes *)

\* what parsing bytes gives, without any cache
C21_Parse(bytes) ==
    IF Utf8Ok(bytes) THEN FromStr(bytes) ELSE Err("Yaml", <<"Invalid UTF-8">>)

\* C21: read_info_from_bytes with the empty locator never consults and never
\* populates the info cache, whatever the enable flag is: the result is the
\* parse of the bytes on every call, and both caches are left as they were.
C21_EmptyLocatorBypassesCache ==
    [][(CallOf("read_info_from_bytes") /\ last'.filename = <<>>) =>
          /\ ~last'.hit
          /\ last'.res = C21_Parse(last'.bytes)
          /\ Utf8Ok(last'.bytes) => last'.parsed = 1
          /\ infoCache' = infoCache
          /\ fileCache' = fileCache]_vars

\* the info cache is enabled and holds a node under the empty key (stored by
\* read_info_for_ref for the empty reference); the bytes given with the
\* empty locator are parsed all the same and yield another node
C21_Witness ==
    /\ last.op = "read_info_from_bytes"
    /\ last.filename = <<>>
    /\ infoCacheEnabled
    /\ <<>> \in DOMAIN infoCache
    /\ ~last.hit
    /\ last.parsed = 1
    /\ last.res.ok
    /\ last.res.node # infoCache[<<>>]

-----------------------------------------------------------------------------
(* The cache-touching operations step by step on one thread, while another *)
(* thread enables and disables the caches.  touched tells whether the      *)
(* operation has read or written its cache: FILE_CACHE for fetch_file,     *)
(* INFO_CACHE for read_info_from_bytes and read_info_for_ref.              *)

FlightUrls == {UrlB, UrlX}
FlightLocators == {LocB, EmptyStr}
FlightPayloads == {BytesB, BytesBad}
FlightBases == {LocB, DirC}
FlightReferences == {RefGadget, RefEk}

FlightFree == fl.pc \in {"idle", "done"}

Returned(res) == fl' = [fl EXCEPT !.pc = "done", !.res = res]

\* fetch_file, line 103: the call starts and loads FILE_CACHE_ENABLED
FetchFileStart(fileurl) ==
    /\ FlightFree
    /\ fl' = [NoFlight EXCEPT !.pc = "ff_lookup", !.op = "fetch_file",
                              !.cache_enabled = fileCacheEnabled, !.filename = fileurl]
    /\ UNCHANGED <<fileCache, infoCache, fileCacheEnabled, infoCacheEnabled>>

\* fetch_file, lines 107-117: the lookup
FetchFileLookup ==
    /\ fl.pc = "ff_lookup"
    /\ IF fl.cache_enabled
       THEN IF fl.filename \in DOMAIN fileCache
            THEN fl' = [fl EXCEPT !.pc = "done", !.touched = TRUE,
                                  !.res = OkBytes(fileCache[fl.filename])]
            ELSE fl' = [fl EXCEPT !.pc = "ff_fetch", !.touched = TRUE]
       ELSE fl' = [fl EXCEPT !.pc = "ff_fetch"]
    /\ UNCHANGED <<fileCache, infoCache, fileCacheEnabled, infoCacheEnabled>>

\* fetch_file, lines 120-127: the request
FetchFileFetch ==
    /\ fl.pc = "ff_fetch"
    /\ IF FetchUrlAsync(fl.filename).res.ok
       THEN fl' = [fl EXCEPT !.pc = "ff_store", !.bytes = FetchUrlAsync(fl.filename).res.bytes]
       ELSE Returned(FetchUrlAsync(fl.filename).res)
    /\ UNCHANGED <<fileCache, infoCache, fileCacheEnabled, infoCacheEnabled>>

\* fetch_file, lines 130-134: the insertion and the return
FetchFileInsert ==
    /\ fl.pc = "ff_store"
    /\ fileCache' = IF fl.cache_enabled THEN Insert(fileCache, fl.filename, fl.bytes)
                    ELSE fileCache
    /\ fl' = [fl EXCEPT !.pc = "done", !.touched = (fl.touched \/ fl.cache_enabled),
                        !.res = OkBytes(fl.bytes)]
    /\ UNCHANGED <<infoCache, fileCacheEnabled, infoCacheEnabled>>

\* read_info_from_bytes, line 208: the call starts and loads INFO_CACHE_ENABLED
FromBytesStart(filename, bytes) ==
    /\ FlightFree
    /\ fl' = [NoFlight EXCEPT !.pc = "rb_lookup", !.op = "read_info_from_bytes",
                              !.cache_enabled = infoCacheEnabled,
                              !.inner_enabled = infoCacheEnabled,
                              !.filename = filename, !.bytes = bytes]
    /\ UNCHANGED <<fileCache, infoCache, fileCacheEnabled, infoCacheEnabled>>

\* read_info_for_ref, line 246: the call starts and loads INFO_CACHE_ENABLED
ForRefStart(basefile, reference) ==
    /\ FlightFree
    /\ fl' = [NoFlight EXCEPT !.pc = "rr_lookup", !.op = "read_info_for_ref", !.refs = 1,
                              !.cache_enabled = infoCacheEnabled,
                              !.basefile = basefile, !.reference = reference]
    /\ UNCHANGED <<fileCache, infoCache, fileCacheEnabled, infoCacheEnabled>>

\* read_info_for_ref, lines 250-260: the lookup of the reference
ForRefLookup ==
    /\ fl.pc = "rr_lookup"
    /\ IF fl.cache_enabled
       THEN IF fl.reference \in DOMAIN infoCache
            THEN fl' = [fl EXCEPT !.pc = "done", !.touched = TRUE,
                                  !.res = Ok(infoCache[fl.reference])]
            ELSE fl' = [fl EXCEPT !.pc = "rr_read", !.touched = TRUE]
       ELSE fl' = [fl EXCEPT !.pc = "rr_read"]
    /\ UNCHANGED <<fileCache, infoCache, fileCacheEnabled, infoCacheEnabled>>

\* read_info_for_ref, line 285: the bytes b of the resolved locator
ForRefReadBytes(filename, b) ==
    /\ fileCache' = b.fc
    /\ IF b.res.ok
       THEN fl' = [fl EXCEPT !.pc = "rr_bytes", !.filename = filename, !.bytes = b.res.bytes,
                             !.reads = @ + 1]
       ELSE fl' = [fl EXCEPT !.pc = "done", !.filename = filename, !.reads = @ + 1,
                             !.res = [b.res EXCEPT !.bytes = NoBytes]]

\* read_info_for_ref, lines 262-285: the locator is resolved and read
ForRefRead ==
    /\ fl.pc = "rr_read"
    /\ ForRefReadBytes(ResolveFilename(fl.basefile, fl.reference),
                       ReadBytesForFile(fileCache, fileCacheEnabled,
                                        ResolveFilename(fl.basefile, fl.reference)))
    /\ UNCHANGED <<infoCache, fileCacheEnabled, infoCacheEnabled>>

\* read_info_for_ref, line 286, and read_info_from_bytes, line 208: the
\* call of read_info_from_bytes starts and loads INFO_CACHE_ENABLED again
ForRefFromBytesStart ==
    /\ fl.pc = "rr_bytes"
    /\ fl' = [fl EXCEPT !.pc = "rb_lookup", !.inner_enabled = infoCacheEnabled,
                        !.frombytes = @ + 1]
    /\ UNCHANGED <<fileCache, infoCache, fileCacheEnabled, infoCacheEnabled>>

\* read_info_from_bytes returns the node info: to the caller, or to line 286
\* of read_info_for_ref
FromBytesReturns(info, touched) ==
    IF fl.op = "read_info_for_ref"
    THEN fl' = [fl EXCEPT !.pc = "rr_navigate", !.info = info,
                          !.touched = (fl.touched \/ touched)]
    ELSE fl' = [fl EXCEPT !.pc = "done", !.res = Ok(info),
                          !.touched = (fl.touched \/ touched)]

\* read_info_from_bytes, lines 212-222: the lookup
FromBytesLookup ==
    /\ fl.pc = "rb_lookup"
    /\ IF fl.inner_enabled /\ fl.filename # <<>>
       THEN IF fl.filename \in DOMAIN infoCache
            THEN FromBytesReturns(infoCache[fl.filename], TRUE)
            ELSE fl' = [fl EXCEPT !.pc = "rb_parse", !.touched = TRUE]
       ELSE fl' = [fl EXCEPT !.pc = "rb_parse"]
    /\ UNCHANGED <<fileCache, infoCache, fileCacheEnabled, infoCacheEnabled>>

\* read_info_from_bytes, lines 225-228: from_utf8 and serde_yaml::from_str;
\* an error returns from read_info_for_ref too (the ? of line 286)
FromBytesParse ==
    /\ fl.pc = "rb_parse"
    /\ IF ~Utf8Ok(fl.bytes)
       THEN Returned(Err("Yaml", <<"Invalid UTF-8">>))
       ELSE IF ~FromStr(fl.bytes).ok
       THEN Returned(FromStr(fl.bytes))
       ELSE fl' = [fl EXCEPT !.pc = "rb_store", !.info = FromStr(fl.bytes).node]
    /\ UNCHANGED <<fileCache, infoCache, fileCacheEnabled, infoCacheEnabled>>

\* read_info_from_bytes, lines 231-235: the insertion and the return
FromBytesStore ==
    /\ fl.pc = "rb_store"
    /\ infoCache' = IF fl.inner_enabled /\ fl.filename # <<>>
                    THEN Insert(infoCache, fl.filename, fl.info)
                    ELSE infoCache
    /\ FromBytesReturns(fl.info, fl.inner_enabled /\ fl.filename # <<>>)
    /\ UNCHANGED <<fileCache, fileCacheEnabled, infoCacheEnabled>>

\* read_info_for_ref, lines 290-322: the navigation nav is done
ForRefNavigated(nav) ==
    IF nav.st = "ok"
    THEN /\ infoCache' = IF fl.cache_enabled THEN Insert(infoCache, fl.reference, nav.info)
                         ELSE infoCache
         /\ fl' = [fl EXCEPT !.pc = "done", !.res = Ok(nav.info),
                             !.touched = (fl.touched \/ fl.cache_enabled)]
    ELSE /\ infoCache' = CacheOnFailure(infoCache, fl.cache_enabled, nav.st, fl.reference)
         /\ fl' = [fl EXCEPT !.pc = "done",
                             !.res = Err("Simple", CouldNotResolve(fl.reference)),
                             !.touched = (fl.touched \/ (fl.cache_enabled /\ nav.st = "missing"))]

\* the key of a reference field
KeyRef == YString(<<"$","r","e","f">>)

\* read_info_for_ref resolving the $ref of the fragment it found by calling
\* itself (the count of the calls stops at 2)
ForRefNavigate_FollowsRef ==
    /\ fl.pc = "rr_navigate"
    /\ IF /\ NavigateFragment(fl.info, SplitN2(fl.reference, "#")).st = "ok"
          /\ NavigateFragment(fl.info, SplitN2(fl.reference, "#")).info.kind = "mapping"
          /\ KeyRef \in DOMAIN NavigateFragment(fl.info, SplitN2(fl.reference, "#")).info.map
       THEN /\ fl' = [fl EXCEPT !.pc = "rr_lookup", !.refs = 2, !.basefile = fl.filename,
                                !.reference = NavigateFragment(fl.info, SplitN2(fl.reference, "#")).info.map[KeyRef].val]
            /\ UNCHANGED infoCache
       ELSE ForRefNavigated(NavigateFragment(fl.info, SplitN2(fl.reference, "#")))
    /\ UNCHANGED <<fileCache, fileCacheEnabled, infoCacheEnabled>>

\* read_info_for_ref, lines 290-322: the navigation, the insertion and the return
ForRefNavigate ==
    /\ fl.pc = "rr_navigate"
    /\ ForRefNavigated(NavigateFragment(fl.info, SplitN2(fl.reference, "#")))
    /\ UNCHANGED <<fileCache, fileCacheEnabled, infoCacheEnabled>>

\* enable_file_cache, disable_file_cache on another thread
OtherSetsFileCacheEnabled(b) ==
    /\ fileCacheEnabled # b
    /\ fileCacheEnabled' = b
    /\ UNCHANGED <<fileCache, infoCache, infoCacheEnabled, fl>>

\* enable_info_cache, disable_info_cache on another thread
OtherSetsInfoCacheEnabled(b) ==
    /\ infoCacheEnabled # b
    /\ infoCacheEnabled' = b
    /\ UNCHANGED <<fileCache, infoCache, fileCacheEnabled, fl>>

flightFrame == <<calls, last, first, invalidated, threads, parses, ext, ctx, err, eg, dec>>

NextFlight ==
    \/ \E f \in FlightUrls : FetchFileStart(f) /\ UNCHANGED flightFrame
    \/ FetchFileLookup /\ UNCHANGED flightFrame
    \/ FetchFileFetch /\ UNCHANGED flightFrame
    \/ FetchFileInsert /\ UNCHANGED flightFrame
    \/ \E f \in FlightLocators, b \in FlightPayloads :
          FromBytesStart(f, b) /\ UNCHANGED flightFrame
    \/ FromBytesLookup /\ UNCHANGED flightFrame
    \/ FromBytesParse /\ UNCHANGED flightFrame
    \/ FromBytesStore /\ UNCHANGED flightFrame
    \/ \E f \in FlightBases, r \in FlightReferences :
          ForRefStart(f, r) /\ UNCHANGED flightFrame
    \/ ForRefLookup /\ UNCHANGED flightFrame
    \/ ForRefRead /\ UNCHANGED flightFrame
    \/ ForRefFromBytesStart /\ UNCHANGED flightFrame
    \/ ForRefNavigate /\ UNCHANGED flightFrame
    \/ \E b \in BOOLEAN : OtherSetsFileCacheEnabled(b) /\ UNCHANGED flightFrame
    \/ \E b \in BOOLEAN : OtherSetsInfoCacheEnabled(b) /\ UNCHANGED flightFrame

SpecFlight == Init /\ [][NextFlight]_vars

\* a step of the operation in flight: the thread that runs it goes on
FlightStep ==
    (\/ FetchFileLookup \/ FetchFileFetch \/ FetchFileInsert
     \/ FromBytesLookup \/ FromBytesParse \/ FromBytesStore
     \/ ForRefLookup \/ ForRefRead \/ ForRefFromBytesStart \/ ForRefNavigate)
        /\ UNCHANGED flightFrame

\* C22: each cache-touching operation observes the enable flag of its cache
\* at its start, and an operation that observed the flag as disabled neither
\* reads from nor writes to that cache before it returns, also when another
\* thread toggles the flag while the operation is in flight.
C22_DisabledNeverTouches ==
    (fl.op # "none" /\ ~fl.cache_enabled) => ~fl.touched

\* read_info_for_ref("d/c", "e#/k") observed the info cache as disabled and
\* returned with the document stored under "d/e"
C22_Witness ==
    /\ fl.pc = "done"
    /\ fl.op = "read_info_for_ref"
    /\ fl.basefile = DirC
    /\ fl.reference = RefEk
    /\ ~fl.cache_enabled
    /\ fl.inner_enabled
    /\ fl.touched
    /\ DirE \in DOMAIN infoCache
    /\ RefEk \notin DOMAIN infoCache

\* the number of steps read_info_for_ref has left at most
C23_Rank(pc) ==
    CASE pc = "rr_lookup" -> 7
      [] pc = "rr_read" -> 6
      [] pc = "rr_bytes" -> 5
      [] pc = "rb_lookup" -> 4
      [] pc = "rb_parse" -> 3
      [] pc = "rb_store" -> 2
      [] pc = "rr_navigate" -> 1
      [] OTHER -> 0

\* C23: a read_info_for_ref call never calls read_info_for_ref again, makes
\* at most one read_bytes_for_file and at most one read_info_from_bytes, and
\* returns, also when the $ref fields of the documents form a cycle ("d/c"
\* refers to "e#/k" and "d/e" to "c#/k"): while it has not returned it can
\* always take a step, and each step leaves it fewer steps to take.
C23_ResolvesOnceAndReturns ==
    /\ []((fl.op = "read_info_for_ref" /\ fl.pc # "done") => ENABLED FlightStep)
    /\ [][(fl.op = "read_info_for_ref" /\ fl.pc # "done" /\ fl' # fl) =>
             /\ fl'.op = "read_info_for_ref"
             /\ fl'.refs = 1
             /\ fl'.reads <= 1
             /\ fl'.frombytes <= 1
             /\ C23_Rank(fl'.pc) < C23_Rank(fl.pc)]_vars

\* read_info_for_ref("d/c", "e#/k") returned the fragment of "d/e", whose
\* $ref leads back to "d/c", after one read and one parse
C23_Witness ==
    /\ fl.pc = "done"
    /\ fl.op = "read_info_for_ref"
    /\ fl.basefile = DirC
    /\ fl.reference = RefEk
    /\ fl.filename = DirE
    /\ fl.res = Ok(Map1(KeyRef, YString(<<"c","#","/","k">>)))
    /\ fl.refs = 1
    /\ fl.reads = 1
    /\ fl.frombytes = 1

-----------------------------------------------------------------------------
(* Failures of the Reader *)

-----------------------------------------------------------------------------
(* Errors of a decode *)

\* C25: parse_document given a root node that is not a mapping returns Err
\* with an ErrorGroup of exactly one error, whose path is the description of
\* the context passed in; nothing below the node is decoded.
C25_NotMappingAborts ==
    (dec.pc = "done" /\ ~IsMapping(dec.node)) =>
        /\ ~dec.result.ok
        /\ dec.result.value = Absent
        /\ LenOf(dec.result.errors) = 1
        /\ dec.result.errors[1].variant = "Unlocated"
        /\ dec.result.errors[1].path = Description(dec.context)
        /\ dec.result.errors[1].message[1] = "expected mapping, got "

\* the sequence [{tags: "x"}] decoded under "$.c": the one error is at "$.c",
\* and none comes from the tags of its item
C25_Witness ==
    /\ dec.pc = "done"
    /\ dec.node = YSequence(<<Map1(YString(KeyTags), YString(<<"x">>))>>)
    /\ dec.context = Child(Root(<<"$">>), <<"c">>)
    /\ LenOf(dec.result.errors) = 1
    /\ dec.result.errors[1].path = <<"$", ".", "c">>
    /\ ~dec.result.ok

\* p is the beginning of s
IsPrefix(p, s) == Len(p) <= Len(s) /\ SubSeq(s, 1, Len(p)) = p

\* the errors of the subtree under key, decoded on its own by parse
C26_TagsErrors(node, context) ==
    IF MapHasKey(node, KeyTags)
    THEN ParseTags(MapValueForKey(node, KeyTags), Child(context, KeyTags)).errors
    ELSE <<>>

C26_DocsErrors(node, context) ==
    IF MapHasKey(node, KeyExternalDocs)
    THEN ParseExternalDocs(MapValueForKey(node, KeyExternalDocs),
                           Child(context, KeyExternalDocs)).errors
    ELSE <<>>

\* every error of errs lies under the path
C26_AllUnder(errs, path) ==
    \A i \in 1..Len(errs) : IsPrefix(path, errs[i].path)

\* the errors of the items of a tags sequence, from item i on, in order
RECURSIVE C26_ItemErrors(_, _, _)
C26_ItemErrors(items, context, i) ==
    IF i > Len(items) THEN <<>>
    ELSE ParseTag(items[i], Child(context, ToDecimal(i - 1))).errors
            \o C26_ItemErrors(items, context, i + 1)

\* C26: when several sibling subtrees of a mapping fail to decode, the
\* failure of one does not stop the decoding of the later ones: the
\* ErrorGroup of parse_document holds the errors of every failing subtree,
\* in traversal order (the items of tags in their order, tags before
\* externalDocs), each with the dotted path of its own subtree.
C26_ErrorsAccumulate ==
    (dec.pc = "done" /\ IsMapping(dec.node)) =>
        /\ dec.result.errors = C26_TagsErrors(dec.node, dec.context)
                                  \o C26_DocsErrors(dec.node, dec.context)
        /\ C26_AllUnder(C26_TagsErrors(dec.node, dec.context),
                        Description(dec.context) \o <<".">> \o KeyTags)
        /\ C26_AllUnder(C26_DocsErrors(dec.node, dec.context),
                        Description(dec.context) \o <<".">> \o KeyExternalDocs)
        /\ (MapHasKey(dec.node, KeyTags) /\ IsSequence(MapValueForKey(dec.node, KeyTags))) =>
              C26_TagsErrors(dec.node, dec.context)
                 = C26_ItemErrors(MapValueForKey(dec.node, KeyTags).val,
                                  Child(dec.context, KeyTags), 1)

\* {tags: [{name: t}, "x", {externalDocs: "x"}], externalDocs: "x"} under "$":
\* three errors, of the second tag, of the third tag's externalDocs and of
\* the externalDocs of the document
C26_Witness ==
    /\ dec.pc = "done"
    /\ dec.context = Root(<<"$">>)
    /\ IsMapping(dec.node)
    /\ DOMAIN dec.node.map = {YString(KeyTags), YString(KeyExternalDocs)}
    /\ ~dec.result.ok
    /\ dec.result.errors =
          << Unlocated(<<"$", ".">> \o KeyTags \o <<".", "1">>, <<"tag must be an object">>),
             Unlocated(<<"$", ".">> \o KeyTags \o <<".", "2", ".">> \o KeyExternalDocs,
                       <<"externalDocs must be an object">>),
             Unlocated(<<"$", ".">> \o KeyExternalDocs, <<"externalDocs must be an object">>) >>

-----------------------------------------------------------------------------
(* Handlers along a chain of Contexts *)

\* the chain of the i-th Context of ctx: itself and its parents
C27_ChainOf(i) == SubSeq(ctx, 1, i)

\* C27: every Context created with a parent through Context::new, child or
\* child_with_position carries the extension-handler list of its parent, so
\* get_extension_handlers returns for every node of a chain the list of the
\* chain's root, and None for every node of a chain whose root is what
\* Context::root returns.
C27_HandlersInherited ==
    \A i \in 1..Len(ctx) :
        /\ GetExtensionHandlers(C27_ChainOf(i)) = GetExtensionHandlers(C27_ChainOf(1))
        /\ C27_ChainOf(1) = Root(ctx[1].name) => GetExtensionHandlers(C27_ChainOf(i)) = NoHandlers

\* a chain of three Contexts under a root made with the handler list [h1]:
\* the leaf, made by child_with_position, returns [h1]
C27_Witness ==
    /\ Len(ctx) = 3
    /\ ctx[1].extension_handlers = SomeHandlers(<< <<"h","1">> >>)
    /\ ctx[3].line.some
    /\ GetExtensionHandlers(ctx) = SomeHandlers(<< <<"h","1">> >>)

-----------------------------------------------------------------------------
(* Removing entries *)

\* after is before without the entry of key
C28_Without(before, after, key) ==
    /\ DOMAIN after = DOMAIN before \ {key}
    /\ \A k \in DOMAIN after : after[k] = before[k]

\* C28: remove_from_file_cache(L) and remove_from_info_cache(L) delete the
\* entry of L alone and leave the other cache as it was when their cache is
\* enabled, and change nothing when it is disabled; enabling and disabling
\* change no entry, so an entry stored before a disable is served as a hit
\* once the cache is enabled again.
C28_RemoveOnlyWhenEnabled ==
    [][/\ CallOf("remove_from_file_cache") =>
             /\ infoCache' = infoCache
             /\ IF fileCacheEnabled
                THEN C28_Without(fileCache, fileCache', last'.filename)
                ELSE fileCache' = fileCache
       /\ CallOf("remove_from_info_cache") =>
             /\ fileCache' = fileCache
             /\ IF infoCacheEnabled
                THEN C28_Without(infoCache, infoCache', last'.filename)
                ELSE infoCache' = infoCache
       /\ (fileCacheEnabled' # fileCacheEnabled \/ infoCacheEnabled' # infoCacheEnabled) =>
             fileCache' = fileCache /\ infoCache' = infoCache
       /\ (CallOf("fetch_file") /\ fileCacheEnabled /\ last'.filename \in DOMAIN fileCache) =>
             last'.res = OkBytes(fileCache[last'.filename]) /\ last'.requests = <<>>
       /\ (CallOf("read_info_from_bytes") /\ infoCacheEnabled
              /\ last'.filename \in DOMAIN infoCache /\ last'.filename # <<>>) =>
             last'.hit /\ last'.res = Ok(infoCache[last'.filename])]_vars

\* "http://h/b" was fetched and stored, the file cache disabled, and
\* remove_from_file_cache("http://h/b") left the entry where it was
C28_Witness ==
    /\ calls = 3
    /\ last.op = "remove_from_file_cache"
    /\ last.filename = UrlB
    /\ ~fileCacheEnabled
    /\ UrlB \in DOMAIN fileCache
    /\ fileCache[UrlB] = BytesB

-----------------------------------------------------------------------------
(* What the file cache holds *)

\* C29: every key of the file cache is a locator with the scheme http whose
\* fetch succeeded, stored with the body that was fetched: the bytes of
\* local files are never stored, and an https locator is never stored, its
\* fetch failing with an Http error before any request is made.
C29_FileCacheHoldsHttpOnly ==
    /\ [](\A k \in DOMAIN fileCache :
             /\ UrlParseOk(k)
             /\ UrlScheme(k) = Http
             /\ HttpGet(k).status = "200"
             /\ fileCache[k] = HttpGet(k).body)
    /\ [][(calls' = calls + 1
             /\ last'.op \in {"read_bytes_for_file", "read_info_for_file", "fetch_file"}
             /\ UrlScheme(last'.filename) = Https) =>
                /\ ~last'.res.ok
                /\ last'.res.err.kind = "Http"
                /\ last'.requests = <<>>
                /\ fileCache' = fileCache]_vars

\* read_bytes_for_file("https://h/b") failed without a request while the file
\* cache, enabled, holds "http://h/b" and nothing else
C29_Witness ==
    /\ last.op = "read_bytes_for_file"
    /\ last.filename = UrlS
    /\ fileCacheEnabled
    /\ ~last.res.ok
    /\ last.requests = <<>>
    /\ DOMAIN fileCache = {UrlB}

-----------------------------------------------------------------------------
(* The results of the decoders *)

\* an Err carries at least one error, an Ok none
C30_ErrIsNonEmpty(r) == r.ok <=> r.errors = <<>>

\* the errors Parser::parse_document records for node under context: the one
\* of the precondition, or those of the two subtrees it decodes
C30_Recorded(node, context) ==
    IF ~IsMapping(node) THEN 1
    ELSE Len(C26_TagsErrors(node, context)) + Len(C26_DocsErrors(node, context))

\* C30: every Err(ErrorGroup) a decoder returns holds at least one error, and
\* a decoder returns Ok exactly when it recorded no error: parse_document and
\* parse_document_from_file of document.rs, Parser::parse_document, and the
\* decoders of the subtrees (parse_tags, parse_tag, parse_external_docs).  A
\* failure to fetch or to parse the input is an ErrorGroup of exactly one
\* error, that of the reader.
C30_ErrNonEmptyOkIffNoError ==
    dec.pc # "none" =>
        /\ C30_ErrIsNonEmpty(dec.result)
        /\ ~dec.input.ok =>
              ( /\ dec.pc \in {"bytes", "file"}
                /\ ~dec.result.ok
                /\ Len(dec.result.errors) = 1
                /\ dec.result.errors[1].variant = dec.input.err.kind
                /\ dec.result.errors[1].message = dec.input.err.msg )
        /\ dec.input.ok =>
              ( /\ dec.result.ok <=> C30_Recorded(dec.node, dec.context) = 0
                /\ Len(dec.result.errors) = C30_Recorded(dec.node, dec.context) )
        /\ (dec.input.ok /\ MapHasKey(dec.node, KeyExternalDocs)) =>
              C30_ErrIsNonEmpty(ParseExternalDocs(MapValueForKey(dec.node, KeyExternalDocs),
                                                  Child(dec.context, KeyExternalDocs)))
        /\ (dec.input.ok /\ MapHasKey(dec.node, KeyTags)) =>
              ( /\ C30_ErrIsNonEmpty(ParseTags(MapValueForKey(dec.node, KeyTags),
                                               Child(dec.context, KeyTags)))
                /\ IsSequence(MapValueForKey(dec.node, KeyTags)) =>
                      \A i \in 1..Len(MapValueForKey(dec.node, KeyTags).val) :
                          C30_ErrIsNonEmpty(
                              ParseTag(MapValueForKey(dec.node, KeyTags).val[i],
                                       Child(Child(dec.context, KeyTags), ToDecimal(i - 1)))) )

\* parse_document_from_file("https://h/b"): the fetch fails, and the result
\* is an ErrorGroup of the one Http error
C30_Witness ==
    /\ dec.pc = "file"
    /\ dec.path = UrlS
    /\ ~dec.input.ok
    /\ ~dec.result.ok
    /\ Len(dec.result.errors) = 1
    /\ dec.result.errors[1].variant = "Http"

====
